---- MODULE Spec2Model ----
(***************************************************************************)
(* A model of the patch-application and self-repair loop of the           *)
(* EvalLLMforJava pipeline: run_pipeline.py (main, improve_code_with_llm), *)
(* apply_llm_changes.py (extract_diff_json, normalize_code, apply_diff),   *)
(* run_unit_test.py (run_unit_test) and call_llms.py (call_llm).           *)
(*                                                                         *)
(* Text.  A Python string is a sequence of atoms.  An atom is a character  *)
(* ("a", " ", "\n") or a word that the code writes or searches for as a    *)
(* whole ("[Format Error]", "[TEST PASSED]", "filepath", ...).  `x in s`   *)
(* on strings is Contains(x, s): x occurs as a contiguous run of atoms.    *)
(* An f-string is the concatenation of its literal text and of the values  *)
(* it embeds.                                                              *)
(***************************************************************************)
EXTENDS Integers, Sequences, FiniteSets, TLC

\* The longest search/replace text drawn for a block.
MaxLen == 2
\* The largest number of blocks in one LLM output.
MaxBlocks == 2

WS == {" ", "\n"}
Alphabet == {"a", " ", "\n"}

StrUpTo(n) == UNION {[1..k -> Alphabet] : k \in 0..n}

\* Python `sub in s` for strings.
Contains(sub, s) ==
    \E i \in 0..(Len(s) - Len(sub)) : SubSeq(s, i + 1, i + Len(sub)) = sub

\* Python s.startswith(p).
StartsWith(s, p) == Len(s) >= Len(p) /\ SubSeq(s, 1, Len(p)) = p

RECURSIVE LStrip(_)
LStrip(s) == IF s # <<>> /\ Head(s) \in WS THEN LStrip(Tail(s)) ELSE s

RECURSIVE RStrip(_)
RStrip(s) ==
    IF s # <<>> /\ s[Len(s)] \in WS THEN RStrip(SubSeq(s, 1, Len(s) - 1)) ELSE s

\* Python s.strip().
Strip(s) == RStrip(LStrip(s))

\* Python s.splitlines(): the lines of s, a final line break opening no line.
RECURSIVE SplitFrom(_, _)
SplitFrom(s, cur) ==
    IF s = <<>> THEN (IF cur = <<>> THEN <<>> ELSE <<cur>>)
    ELSE IF Head(s) = "\n" THEN <<cur>> \o SplitFrom(Tail(s), <<>>)
    ELSE SplitFrom(Tail(s), Append(cur, Head(s)))

SplitLines(s) == SplitFrom(s, <<>>)

\* Python sep.join(parts).
RECURSIVE Join(_, _)
Join(sep, parts) ==
    IF parts = <<>> THEN <<>>
    ELSE IF Len(parts) = 1 THEN parts[1]
    ELSE parts[1] \o sep \o Join(sep, Tail(parts))

\* Python s.replace(old, new): every occurrence, left to right, not
\* overlapping; an empty old matches before every character and at the end.
RECURSIVE ReplaceEmpty(_, _)
ReplaceEmpty(s, new) ==
    IF s = <<>> THEN new ELSE new \o <<Head(s)>> \o ReplaceEmpty(Tail(s), new)

RECURSIVE ReplaceFrom(_, _, _)
ReplaceFrom(s, old, new) ==
    IF Len(s) < Len(old) THEN s
    ELSE IF SubSeq(s, 1, Len(old)) = old
         THEN new \o ReplaceFrom(SubSeq(s, Len(old) + 1, Len(s)), old, new)
         ELSE <<Head(s)>> \o ReplaceFrom(Tail(s), old, new)

Replace(s, old, new) ==
    IF old = <<>> THEN ReplaceEmpty(s, new) ELSE ReplaceFrom(s, old, new)

RECURSIVE StripEach(_)
StripEach(lines) ==
    IF lines = <<>> THEN <<>>
    ELSE IF Strip(Head(lines)) = <<>> THEN StripEach(Tail(lines))
    ELSE <<Strip(Head(lines))>> \o StripEach(Tail(lines))

\* apply_llm_changes.normalize_code: each line stripped, empty lines dropped.
normalize_code(code) == Join(<<"\n">>, StripEach(SplitLines(Strip(code))))

(***************************************************************************)
(* JSON values, as json.loads returns them: None, bool, int, str, list and *)
(* dict (the keys in their order, the values beside them).                 *)
(***************************************************************************)
JNull == [t |-> "null"]
JBool == [t |-> "bool"]
JNum == [t |-> "num"]
JStr(s) == [t |-> "str", s |-> s]
JArr(items) == [t |-> "arr", items |-> items]
JObj(keys, vals) == [t |-> "obj", keys |-> keys, vals |-> vals]

InSeq(x, seq) == \E i \in 1..Len(seq) : seq[i] = x

\* Python obj[key] on a dict that has the key.
Get(obj, key) == obj.vals[CHOOSE i \in 1..Len(obj.keys) : obj.keys[i] = key]

\* The characters of a string, one string each (iterating a Python str): a
\* word atom stands for its letters, none of which is a word.
RECURSIVE CharsOf(_)
CharsOf(s) ==
    IF s = <<>> THEN <<>>
    ELSE (IF Head(s) \in Alphabet THEN <<JStr(<<Head(s)>>)>>
          ELSE <<JStr(<<"w">>), JStr(<<"w">>)>>) \o CharsOf(Tail(s))

\* The text of f"{block}".
RECURSIVE ReprAll(_)
Repr(v) ==
    CASE v.t = "str" -> v.s
      [] v.t = "arr" -> <<"[">> \o ReprAll(v.items) \o <<"]">>
      [] v.t = "obj" -> <<"{">> \o Join(<<>>, v.keys) \o ReprAll(v.vals) \o <<"}">>
      [] OTHER -> <<v.t>>
ReprAll(vs) == IF vs = <<>> THEN <<>> ELSE Repr(Head(vs)) \o ReprAll(Tail(vs))

RequiredKeys == <<(<<"filepath">>), (<<"search">>), (<<"replace">>)>>

\* Python `key in block`: a dict has the key, a str holds it as a substring,
\* a list holds an equal element; None, bool and int raise TypeError.
KeyIn(key, block) ==
    CASE block.t = "obj" -> InSeq(key, block.keys)
      [] block.t = "str" -> Contains(key, block.s)
      [] block.t = "arr" -> InSeq(JStr(key), block.items)
      [] OTHER -> FALSE

KeyInRaises(block) == block.t \in {"null", "bool", "num"}

\* Results of extract_diff_json and apply_diff: a list, a str, None, or an
\* exception that leaves the function.
RList(blocks) == [kind |-> "list", blocks |-> blocks, s |-> <<>>]
RStr(s) == [kind |-> "str", blocks |-> <<>>, s |-> s]
RNone == [kind |-> "none", blocks |-> <<>>, s |-> <<>>]
RRaise(exc) == [kind |-> "raise", blocks |-> <<>>, s |-> <<exc>>]

FormatError == <<"[Format Error]">>

\* The loop of extract_diff_json over the parsed value: the first block that
\* lacks a field ends it with a message, a block that cannot be searched
\* raises, and the blocks before it are dropped with it.
RECURSIVE ValidateBlocks(_, _)
ValidateBlocks(todo, valid_blocks) ==
    IF todo = <<>> THEN RList(valid_blocks)
    ELSE LET block == Head(todo) IN
         IF KeyInRaises(block) THEN RRaise("TypeError")
         ELSE IF \A i \in 1..Len(RequiredKeys) : KeyIn(RequiredKeys[i], block)
              THEN ValidateBlocks(Tail(todo), Append(valid_blocks, block))
              ELSE RStr(FormatError \o <<"Following block is invalid:">> \o Repr(block))

\* What `for block in blocks` iterates: the elements of a list, the keys of
\* a dict, the characters of a str.
Iterate(v) ==
    CASE v.t = "arr" -> v.items
      [] v.t = "obj" -> [i \in 1..Len(v.keys) |-> JStr(v.keys[i])]
      [] v.t = "str" -> CharsOf(v.s)
      [] OTHER -> <<>>

(***************************************************************************)
(* An LLM output.  `text` is what the pipeline prints, embeds and writes;  *)
(* `isStr` is whether it is a str; `fence` is what the regex and json.loads*)
(* make of it: "none" (no ```json block), "bad" (JSONDecodeError) or       *)
(* "json" with the parsed value in `json`.                                 *)
(***************************************************************************)
LlmLog(text, isStr, fence, json) ==
    [text |-> text, isStr |-> isStr, fence |-> fence, json |-> json]

extract_diff_json(llm_log) ==
    IF ~llm_log.isStr
    THEN RStr(FormatError \o <<"LLM log is not a string or bytes-like object.">>)
    ELSE IF llm_log.fence = "none"
    THEN RStr(FormatError \o <<"No valid JSON array found.">>)
    ELSE IF llm_log.fence = "bad"
    THEN RStr(FormatError \o <<"Invalid JSON format.">>)
    ELSE IF llm_log.json.t \in {"null", "bool", "num"}
    THEN RRaise("TypeError")
    ELSE ValidateBlocks(Iterate(llm_log.json), <<>>)

(***************************************************************************)
(* The checkout.  One tracked source file and the tracked build files that *)
(* run_unit_test edits; `tree` maps each to its text.  After               *)
(* `git reset --hard commit_id && git reset --hard HEAD~1` the working     *)
(* tree is the parent commit's.                                            *)
(***************************************************************************)
TrackedFile == "A.java"
PomFile == "pom.xml"
GradleDeps == "gradle/dependencies.gradle"
BuildGradle == "build.gradle"
TrackedFiles == <<TrackedFile, PomFile, GradleDeps, BuildGradle>>
ParentTree ==
    (TrackedFile :> <<"a", "\n", " ", "a">>)
    @@ (PomFile :> <<"Final-SNAPSHOT", "\n", "check-format">>)
    @@ (GradleDeps :> <<"grgit", "1.0", "\n", "spotbugsPlugin", "1.0">>)
    @@ (BuildGradle :> <<"sourceDirectories", "=", "files">>)
\* A working tree that earlier edits left behind.
DirtyTree == [ParentTree EXCEPT ![TrackedFile] = <<"a", "\n", " ", "a", "\n", "e">>]

\* open(filepath, 'r') succeeds: the path is a str naming a file.
Readable(filepath, tree) ==
    filepath.t = "str" /\ Len(filepath.s) = 1 /\ filepath.s[1] \in DOMAIN tree

RECURSIVE NoWs(_)
NoWs(line) ==
    IF line = <<>> THEN <<>>
    ELSE IF Head(line) \in WS THEN NoWs(Tail(line))
    ELSE <<Head(line)>> \o NoWs(Tail(line))

LinesNoWs(text) == LET ls == SplitLines(text) IN [i \in 1..Len(ls) |-> NoWs(ls[i])]

\* The part of the output of `git diff -w` for one tracked file: empty when
\* the lines are the same but for whitespace, else the old and the new text.
FileDiff(f, tree) ==
    IF LinesNoWs(tree[f]) = LinesNoWs(ParentTree[f])
    THEN <<>>
    ELSE <<"diff --git", f, "-">> \o ParentTree[f] \o <<"+">> \o tree[f]

\* The output of `git diff -w`: the parts of the tracked files, in order.
RECURSIVE DiffOf(_, _)
DiffOf(fs, tree) ==
    IF fs = <<>> THEN <<>> ELSE FileDiff(Head(fs), tree) \o DiffOf(Tail(fs), tree)

\* `git diff` without -w: a file whose text changed at all is in the output.
git_diff_ws(tree) ==
    IF tree = ParentTree THEN <<>>
    ELSE <<"diff --git", TrackedFile, "-">> \o ParentTree[TrackedFile]
         \o <<"+">> \o tree[TrackedFile]

git_diff_w(tree) == DiffOf(TrackedFiles, tree)

\* One pass of the loop of apply_diff over the blocks.  `writes` lists, for
\* each block the loop went through, whether it wrote the file and the text
\* before and after.  An exception inside the try (the file cannot be read,
\* search or replace is no str) is printed and the loop goes on.
RECURSIVE ApplyBlocks(_, _, _)
ApplyBlocks(blocks, tree, writes) ==
    IF blocks = <<>> THEN [result |-> RNone, tree |-> tree, writes |-> writes]
    ELSE LET block == Head(blocks) IN
         IF block.t # "obj"
         THEN [result |-> RRaise("TypeError"), tree |-> tree, writes |-> writes]
         ELSE LET filepath == Get(block, <<"filepath">>)
                  search == Get(block, <<"search">>)
                  replace == Get(block, <<"replace">>)
                  skip == [wrote |-> FALSE, old |-> <<>>, new |-> <<>>]
              IN
              IF ~Readable(filepath, tree) \/ search.t # "str"
              THEN ApplyBlocks(Tail(blocks), tree, Append(writes, skip))
              ELSE LET content == tree[filepath.s[1]] IN
                   IF Contains(normalize_code(search.s), normalize_code(content))
                   THEN IF replace.t # "str"
                        THEN ApplyBlocks(Tail(blocks), tree, Append(writes, skip))
                        ELSE LET new_content == Replace(content, search.s, replace.s) IN
                             ApplyBlocks(Tail(blocks),
                                 [tree EXCEPT ![filepath.s[1]] = new_content],
                                 Append(writes, [wrote |-> TRUE, old |-> content,
                                                 new |-> new_content]))
                   ELSE [result |-> RStr(FormatError
                                     \o <<"Following search block not found in">>
                                     \o filepath.s \o <<":">> \o search.s),
                         tree |-> tree, writes |-> writes]

\* apply_diff without its reset: the working tree stays as it was.
git_reset_hard_none(tree) == tree

\* `git reset --hard commit_id && git reset --hard HEAD~1`, commit_id naming
\* a commit of the checkout that has a parent: whatever the tracked files
\* held, they are the parent commit's afterwards.  (os.system's exit status
\* is not looked at; files git does not track stay, and are in no diff.)
git_reset_hard(tree) == ParentTree

\* apply_llm_changes.apply_diff on the working tree `tree`; git_ok is
\* whether `git diff -w` exits 0.  The result, the tree it leaves and the
\* writes of its loop.  (ApplyBlocks ends with result None when the loop ran
\* to its end.)
apply_diff(tree, llm_log, git_ok) ==
    LET reset == git_reset_hard(tree)
        blocks == extract_diff_json(llm_log)
        none == [result |-> blocks, tree |-> reset, writes |-> <<>>]
    IN
    IF blocks.kind = "raise" THEN none
    ELSE IF (blocks.kind = "str" /\ Contains(FormatError, blocks.s))
            \/ (blocks.kind = "list" /\ InSeq(JStr(FormatError), blocks.blocks))
    THEN none
    ELSE LET done == ApplyBlocks(blocks.blocks, reset, <<>>) IN
         IF done.result.kind # "none" THEN done
         ELSE IF ~git_ok THEN [done EXCEPT !.result = RNone]
         ELSE LET diff_patch == git_diff_w(done.tree) IN
              IF Strip(diff_patch) = <<>>
              THEN [done EXCEPT !.result =
                        RStr(FormatError \o <<"No code changes detected.">>)]
              ELSE [done EXCEPT !.result = RStr(diff_patch)]

(***************************************************************************)
(* run_unit_test.  A command's exit code is 0, positive, or negative (the  *)
(* process was killed); its output is any text.  `cmds` lists the commands *)
(* run, in order.                                                          *)
(***************************************************************************)
ExitCodes == {-9, 0, 1}
CmdOutputs == {<<"o">>, <<"[TEST PASSED]">>, <<"[BUILD FAILED]">>}
Repos == {"netty", "presto", "kafka", "RoaringBitmap", "guava"}

\* The workaround commands run before the build, by repository.
Workarounds(repo_name, wrapper_exists) ==
    CASE repo_name = "netty" ->
             (IF wrapper_exists THEN <<>> ELSE <<"mvn wrapper">>)
             \o <<"sed Final-SNAPSHOT", "sed check-format">>
      [] repo_name = "kafka" ->
             <<"sed grgit">>
             \o (IF wrapper_exists THEN <<>>
                 ELSE <<"sed spotbugsPlugin", "sed build.gradle", "gradle">>)
      [] OTHER -> <<>>

\* The working tree after the workaround commands: the sed edits of the
\* build files (the wrapper commands add files git does not track).
WorkaroundEdits(repo_name, wrapper_exists, worktree) ==
    CASE repo_name = "netty" ->
             [worktree EXCEPT ![PomFile] =
                 Replace(Replace(@, <<"Final-SNAPSHOT">>, <<"Final">>),
                         <<"check-format">>, <<"check-format", "\n", "skip">>)]
      [] repo_name = "kafka" ->
             LET grgit == [worktree EXCEPT ![GradleDeps] =
                              Replace(@, <<"grgit", "1.0">>, <<"grgit", "4.1.1">>)]
             IN  IF wrapper_exists THEN grgit
                 ELSE [grgit EXCEPT
                          ![GradleDeps] = Replace(@, <<"spotbugsPlugin", "1.0">>,
                                                  <<"spotbugsPlugin", "2.0.0">>),
                          ![BuildGradle] = Replace(@, <<"sourceDirectories", "=">>,
                                                   <<"sourceDirectories", ".setFrom">>)]
      [] OTHER -> worktree

\* run_unit_test with the build's exit code tested by `> 0`.
run_unit_test_positive(repo_name, wrapper_exists, build_code, build_log, test_code, test_log) ==
    IF repo_name \notin {"netty", "presto", "kafka", "RoaringBitmap"}
    THEN [result |-> RRaise("ValueError"), cmds |-> <<>>]
    ELSE LET pre == Workarounds(repo_name, wrapper_exists) IN
         IF build_code > 0
         THEN [result |-> RStr(<<"[BUILD FAILED]", "\n">> \o build_log),
               cmds |-> pre \o <<"build_cmd">>]
         ELSE IF test_code = 0
         THEN [result |-> RStr(<<"[TEST PASSED]", "\n">> \o test_log),
               cmds |-> pre \o <<"build_cmd", "test_cmd">>]
         ELSE [result |-> RStr(<<"[TEST FAILED]", "\n">> \o test_log),
               cmds |-> pre \o <<"build_cmd", "test_cmd">>]

run_unit_test(repo_name, wrapper_exists, build_code, build_log, test_code, test_log) ==
    IF repo_name \notin {"netty", "presto", "kafka", "RoaringBitmap"}
    THEN [result |-> RRaise("ValueError"), cmds |-> <<>>]
    ELSE LET pre == Workarounds(repo_name, wrapper_exists) IN
         IF build_code # 0
         THEN [result |-> RStr(<<"[BUILD FAILED]", "\n">> \o build_log),
               cmds |-> pre \o <<"build_cmd">>]
         ELSE IF test_code = 0
         THEN [result |-> RStr(<<"[TEST PASSED]", "\n">> \o test_log),
               cmds |-> pre \o <<"build_cmd", "test_cmd">>]
         ELSE [result |-> RStr(<<"[TEST FAILED]", "\n">> \o test_log),
               cmds |-> pre \o <<"build_cmd", "test_cmd">>]

(***************************************************************************)
(* run_pipeline.main and improve_code_with_llm.                            *)
(***************************************************************************)
\* The number of prompt files under Prompts/<repo>.
NumPrompts == 1
\* The number of times main is run, one after the other.
MaxRuns == 2
\* improve_code_with_llm: max_iterations.
ImproveMaxIterations == 2
\* main: max_iterations.
MainMaxIterations == 3

repo_name == "RoaringBitmap"
Prompts == 1..NumPrompts

\* The text of prompt file p.
PromptText(p) == <<"prompt.txt", ToString(p)>>

Block(filepath, search, replace) ==
    JObj(RequiredKeys, <<JStr(filepath), JStr(search), JStr(replace)>>)

\* The outputs call_llm("deepseek", ...) gives in the pipeline: one without
\* a fenced block, one whose fenced block is a JSON number, one with a block
\* that deletes a line's text.
LogNoFence == LlmLog(<<"out:prose">>, TRUE, "none", JNull)
LogNumber == LlmLog(<<"out:number">>, TRUE, "json", JNum)
LogPatch == LlmLog(<<"out:patch">>, TRUE, "json",
                   JArr(<<Block(<<TrackedFile>>, <<" ", "a">>, <<>>)>>))
\* An output whose block applies and changes whitespace only.
LogSame == LlmLog(<<"out:same">>, TRUE, "json",
                  JArr(<<Block(<<TrackedFile>>, <<" ", "a">>, <<" ", " ", "a">>)>>))
PipelineLogs == {LogNoFence, LogNumber, LogPatch, LogSame}
\* What the build and test commands print in the pipeline.
PipelineOutputs == {<<"o">>, <<"[TEST PASSED]">>, <<"[BUILD FAILED]">>}
PipelineExitCodes == {0, 1}

EmptyLog == LlmLog(<<>>, TRUE, "none", JNull)
\* A file of Dataset/llm_output: the patch, the LLM output, and the run of
\* main that wrote it (its modification time).
NoFile == [exists |-> FALSE, diff |-> <<>>, log |-> <<>>, mtime |-> 0]
\* The first line of progress.csv.  Of a line's columns the model keeps
\* prompt, status and failure_type; the timestamp and the columns that copy
\* the counters are left out.
HeaderLine == [prompt |-> 0, status |-> "header", failure_type |-> "failure_type"]

VARIABLES
    pc,                 \* where main is
    run,                \* how many times main was started
    todo,               \* the prompt files the for loop has still to visit
    prompt_num,         \* the prompt file being processed
    total_try, good_try, pass_count,
    build_fail_count, test_fail_count, format_fail_count,
    iteration, prompt_feedback, diff_patch, llm_log,
    last_failure_type, build_test_log, failed_prompt, status,
    imp,                \* the locals of improve_code_with_llm
    tree,               \* the working tree of the checkout
    output_files,       \* Dataset/llm_output: promptN.diff and promptN.diff.log
    failed_files,       \* Dataset/llm_output_failed, the current prompt's files
    stats_file,         \* progress.csv
    hist,               \* what was called for the current prompt (history)
    args, ret           \* a function called on its own: arguments, result

counters == <<total_try, good_try, pass_count, build_fail_count,
              test_fail_count, format_fail_count>>
locals == <<iteration, prompt_feedback, diff_patch, llm_log, last_failure_type,
            build_test_log, failed_prompt, status>>
files == <<output_files, failed_files, stats_file>>
call == <<args, ret>>
vars == <<pc, run, todo, prompt_num, counters, locals, imp, tree, files, hist, call>>

NoTest == [ran |-> FALSE, iteration |-> 0, build_ok |-> FALSE, test_ok |-> FALSE,
           log |-> <<>>, llm_log |-> EmptyLog]
NoHist == [calls |-> 0, improves |-> 0, tests |-> 0, last_call |-> <<>>,
           applied |-> RStr(<<>>), tested |-> NoTest, lines0 |-> 0]
NoImp == [iteration |-> 0, prompt_content |-> <<>>, prompt_feedback |-> <<>>,
          llm_log |-> EmptyLog, diff_patch |-> RStr(<<>>)]
NoCall == [fn |-> "none"]

\* main.write_stats: one row appended to progress.csv.
write_stats(file, p, st, ft) ==
    [file EXCEPT !.lines = Append(@, [prompt |-> p, status |-> st, failure_type |-> ft])]

\* main.save_failed_patch: the files it writes (an empty text writes none).
save_failed_patch(dir, p, it, patch, log, build_log, ft) ==
    LET exts == (IF patch.kind = "str" /\ patch.s # <<>> THEN {".diff"} ELSE {})
                \cup (IF log.text # <<>> THEN {".llm.log"} ELSE {})
                \cup (IF build_log # <<>> THEN {".build.log"} ELSE {})
    IN dir \cup {[prompt |-> p, iteration |-> it, failure_type |-> ft, ext |-> e] :
                 e \in exts}

PipelineInit(pc0) ==
    /\ pc = pc0
    /\ run = 0
    /\ todo = <<>>
    /\ prompt_num = 0
    /\ total_try = 0 /\ good_try = 0 /\ pass_count = 0
    /\ build_fail_count = 0 /\ test_fail_count = 0 /\ format_fail_count = 0
    /\ iteration = 0 /\ prompt_feedback = <<>> /\ diff_patch = RStr(<<>>)
    /\ llm_log = EmptyLog /\ last_failure_type = "" /\ build_test_log = <<>>
    /\ failed_prompt = <<>> /\ status = ""
    /\ imp = NoImp
    /\ tree = ParentTree
    /\ output_files = [p \in Prompts |-> NoFile]
    /\ failed_files = {}
    /\ stats_file = [exists |-> FALSE, lines |-> <<>>]
    /\ hist = NoHist

Init == PipelineInit("start") /\ args = NoCall /\ ret = NoCall

\* main up to the for loop: the counters start at 0 and the header is
\* written when progress.csv does not exist.  main is started again after it
\* returned or died.
Main_Start ==
    /\ pc \in {"start", "done", "crashed"}
    /\ run < MaxRuns
    /\ run' = run + 1
    /\ total_try' = 0 /\ good_try' = 0 /\ pass_count' = 0
    /\ build_fail_count' = 0 /\ test_fail_count' = 0 /\ format_fail_count' = 0
    /\ stats_file' = IF stats_file.exists THEN stats_file
                     ELSE [exists |-> TRUE, lines |-> <<HeaderLine>>]
    /\ todo' = [i \in 1..NumPrompts |-> i]
    /\ prompt_num' = 0
    /\ iteration' = 0 /\ prompt_feedback' = <<>> /\ diff_patch' = RStr(<<>>)
    /\ llm_log' = EmptyLog /\ last_failure_type' = "" /\ build_test_log' = <<>>
    /\ failed_prompt' = <<>> /\ status' = ""
    /\ imp' = NoImp
    /\ failed_files' = {}
    /\ hist' = [NoHist EXCEPT !.lines0 = Len(stats_file'.lines)]
    /\ pc' = "next"
    /\ UNCHANGED <<tree, output_files, call>>

\* The for loop has no prompt file left: main returns.
Main_End ==
    /\ pc = "next"
    /\ todo = <<>>
    /\ pc' = "done"
    /\ UNCHANGED <<run, todo, prompt_num, counters, locals, imp, tree, files, hist, call>>

\* The next prompt file has its promptN.diff already: it is counted as
\* passed and nothing else is done for it.
Main_SkipExisting ==
    /\ pc = "next"
    /\ todo # <<>>
    /\ output_files[Head(todo)].exists
    /\ prompt_num' = Head(todo)
    /\ todo' = Tail(todo)
    /\ total_try' = total_try + 1
    /\ good_try' = good_try + 1
    /\ pass_count' = pass_count + 1
    /\ stats_file' = write_stats(stats_file, Head(todo), "pass_existing", "")
    /\ hist' = [NoHist EXCEPT !.lines0 = hist.lines0]
    /\ failed_files' = {}
    /\ UNCHANGED <<pc, run, build_fail_count, test_fail_count, format_fail_count,
                   locals, imp, tree, output_files, call>>

\* Reading the next prompt file without the test for its promptN.diff.
Main_ReadPrompt_NoSkip ==
    /\ pc = "next"
    /\ todo # <<>>
    /\ prompt_num' = Head(todo)
    /\ todo' = Tail(todo)
    /\ total_try' = total_try + 1
    /\ prompt_feedback' = PromptText(Head(todo))
    /\ iteration' = 0
    /\ diff_patch' = RStr(<<>>)
    /\ llm_log' = EmptyLog
    /\ last_failure_type' = ""
    /\ build_test_log' = <<>>
    /\ status' = ""
    /\ hist' = [NoHist EXCEPT !.lines0 = hist.lines0]
    /\ failed_files' = {}
    /\ pc' = "loop"
    /\ UNCHANGED <<run, good_try, pass_count, build_fail_count, test_fail_count,
                   format_fail_count, failed_prompt, imp,
                   tree, output_files, stats_file, call>>

\* The next prompt file is read and the repair loop's locals are set.
\* (build_test_log and status keep the last prompt's values in the code; both
\* are assigned in the first iteration before they are read, and the model
\* forgets them here.)
Main_ReadPrompt ==
    /\ pc = "next"
    /\ todo # <<>>
    /\ ~output_files[Head(todo)].exists
    /\ prompt_num' = Head(todo)
    /\ todo' = Tail(todo)
    /\ total_try' = total_try + 1
    /\ prompt_feedback' = PromptText(Head(todo))
    /\ iteration' = 0
    /\ diff_patch' = RStr(<<>>)
    /\ llm_log' = EmptyLog
    /\ last_failure_type' = ""
    /\ build_test_log' = <<>>
    /\ status' = ""
    /\ hist' = [NoHist EXCEPT !.lines0 = hist.lines0]
    /\ failed_files' = {}
    /\ pc' = "loop"
    /\ UNCHANGED <<run, good_try, pass_count, build_fail_count, test_fail_count,
                   format_fail_count, failed_prompt, imp,
                   tree, output_files, stats_file, call>>

\* The head of the repair loop: one more iteration, which starts with
\* improve_code_with_llm on the current feedback prompt.
Main_Iterate ==
    /\ pc = "loop"
    /\ iteration < MainMaxIterations
    /\ iteration' = iteration + 1
    /\ imp' = [iteration |-> 0, prompt_content |-> prompt_feedback,
               prompt_feedback |-> prompt_feedback, llm_log |-> EmptyLog,
               diff_patch |-> RStr(<<>>)]
    /\ hist' = [hist EXCEPT !.improves = @ + 1]
    /\ pc' = "improve"
    /\ UNCHANGED <<run, todo, prompt_num, counters, prompt_feedback, diff_patch,
                   llm_log, last_failure_type, build_test_log, failed_prompt,
                   status, tree, files, call>>

\* The repair loop ends because its iterations are used up.
Main_LoopExit ==
    /\ pc = "loop"
    /\ ~(iteration < MainMaxIterations)
    /\ pc' = "after"
    /\ UNCHANGED <<run, todo, prompt_num, counters, locals, imp, tree, files, hist, call>>

\* improve_code_with_llm: call_llm on the feedback prompt.
Improve_CallLlm ==
    /\ pc = "improve"
    /\ imp.iteration < ImproveMaxIterations
    /\ \E out \in PipelineLogs :
           imp' = [imp EXCEPT !.llm_log = out]
    /\ hist' = [hist EXCEPT !.calls = @ + 1, !.last_call = imp.prompt_feedback]
    /\ pc' = "apply"
    /\ UNCHANGED <<run, todo, prompt_num, counters, locals, tree, files, call>>

\* The self-repair prompt without the prompt it was asked to improve.
RepairPrompt_NoOriginal(patch, log, content) ==
    <<"The format of your generated code changes does not meet my requirements">>
    \o patch \o <<"Your previous output is:">> \o log.text
    \o <<"Analyze the error.", "Original prompt was:">>

\* The self-repair prompt of improve_code_with_llm.
RepairPrompt(patch, log, content) ==
    <<"The format of your generated code changes does not meet my requirements">>
    \o patch \o <<"Your previous output is:">> \o log.text
    \o <<"Analyze the error.", "Original prompt was:">> \o content

\* improve_code_with_llm: apply_diff on the output and the test of its
\* result.  A result without "[Format Error]" returns "Success"; one with it
\* makes the self-repair prompt and counts the attempt; apply_diff raising,
\* or returning None (`in` on None raises TypeError), ends main.
Improve_ApplyDiff ==
    /\ pc = "apply"
    /\ \E git_ok \in BOOLEAN :
         LET r == apply_diff(tree, imp.llm_log, git_ok) IN
         /\ tree' = r.tree
         /\ hist' = [hist EXCEPT !.applied = r.result]
         /\ IF r.result.kind # "str"
            THEN /\ pc' = "crashed"
                 /\ imp' = IF r.result.kind = "raise" THEN imp
                           ELSE [imp EXCEPT !.diff_patch = r.result]
                 /\ UNCHANGED <<status, llm_log, diff_patch>>
            ELSE IF ~Contains(FormatError, r.result.s)
            THEN /\ pc' = "returned"
                 /\ imp' = NoImp
                 /\ status' = "Success"
                 /\ llm_log' = imp.llm_log
                 /\ diff_patch' = r.result
            ELSE /\ pc' = "improve"
                 /\ imp' = [imp EXCEPT !.diff_patch = r.result,
                                !.prompt_feedback =
                                    RepairPrompt(r.result.s, imp.llm_log,
                                                 imp.prompt_content),
                                !.iteration = @ + 1]
                 /\ UNCHANGED <<status, llm_log, diff_patch>>
    /\ UNCHANGED <<run, todo, prompt_num, counters, iteration, prompt_feedback,
                   last_failure_type, build_test_log, failed_prompt, files, call>>

\* improve_code_with_llm after its loop, returning "Success" whatever the
\* last result was.
Improve_Return_Success ==
    /\ pc = "improve"
    /\ ~(imp.iteration < ImproveMaxIterations)
    /\ status' = "Success"
    /\ llm_log' = imp.llm_log
    /\ diff_patch' = imp.diff_patch
    /\ imp' = NoImp
    /\ pc' = "returned"
    /\ UNCHANGED <<run, todo, prompt_num, counters, iteration, prompt_feedback,
                   last_failure_type, build_test_log, failed_prompt, tree,
                   files, hist, call>>

\* improve_code_with_llm after its loop: "Failed" when the attempts are used
\* up and the last result carries "[Format Error]", else "Success".  Its
\* locals end with the call.
Improve_Return ==
    /\ pc = "improve"
    /\ ~(imp.iteration < ImproveMaxIterations)
    /\ status' = IF imp.iteration = ImproveMaxIterations
                    /\ Contains(FormatError, imp.diff_patch.s)
                 THEN "Failed" ELSE "Success"
    /\ llm_log' = imp.llm_log
    /\ diff_patch' = imp.diff_patch
    /\ imp' = NoImp
    /\ pc' = "returned"
    /\ UNCHANGED <<run, todo, prompt_num, counters, iteration, prompt_feedback,
                   last_failure_type, build_test_log, failed_prompt, tree,
                   files, hist, call>>

\* main on status "Failed" with the iteration counted at the end of the loop
\* body, which `continue` skips.
Main_FormatFailed_NotCounted ==
    /\ pc = "returned"
    /\ status = "Failed"
    /\ build_test_log' = <<"[APPLIED FAILED]", "Not all generated code changes successfully applied!">>
    /\ format_fail_count' = format_fail_count + 1
    /\ last_failure_type' = "format_failed"
    /\ failed_files' = save_failed_patch(failed_files, prompt_num, iteration,
                           diff_patch, llm_log, build_test_log', "format_failed")
    /\ iteration' = iteration - 1
    /\ pc' = "loop"
    /\ UNCHANGED <<run, todo, prompt_num, total_try, good_try, pass_count,
                   build_fail_count, test_fail_count, prompt_feedback,
                   diff_patch, llm_log, failed_prompt, status, imp, tree,
                   output_files, stats_file, hist, call>>

\* main on status "Failed": the iteration is counted as a format failure, its
\* patch is saved with the failed ones, and the loop continues.
Main_FormatFailed ==
    /\ pc = "returned"
    /\ status = "Failed"
    /\ build_test_log' = <<"[APPLIED FAILED]", "Not all generated code changes successfully applied!">>
    /\ format_fail_count' = format_fail_count + 1
    /\ last_failure_type' = "format_failed"
    /\ failed_files' = save_failed_patch(failed_files, prompt_num, iteration,
                           diff_patch, llm_log, build_test_log', "format_failed")
    /\ pc' = "loop"
    /\ UNCHANGED <<run, todo, prompt_num, total_try, good_try, pass_count,
                   build_fail_count, test_fail_count, iteration, prompt_feedback,
                   diff_patch, llm_log, failed_prompt, status, imp, tree,
                   output_files, stats_file, hist, call>>

prompt_content == PromptText(prompt_num)

\* The feedback prompt main makes after a failed build or test.
FeedbackPrompt(fp, build_log, content, log) ==
    <<"The previous code changes you generated did not pass. Please fix the code.">>
    \o fp \o <<"Error log:">> \o build_log \o <<"Original prompt was:">> \o content
    \o <<"Your previous output is:">> \o log.text \o <<"Please fix the code.">>

\* main after "Success": run_unit_test, then the tests of its log.  A log
\* holding "[TEST PASSED]" leaves the loop; else the failure is counted by
\* the tag the log holds, its patch saved, and the feedback prompt made.
Main_RunUnitTest ==
    /\ pc = "returned"
    /\ status # "Failed"
    /\ \E build_code \in PipelineExitCodes, test_code \in PipelineExitCodes,
          build_log \in PipelineOutputs, test_log \in PipelineOutputs :
         LET r == run_unit_test(repo_name, TRUE, build_code, build_log,
                                test_code, test_log)
             log == r.result.s
             ft == IF Contains(<<"[BUILD FAILED]">>, log) THEN "build_failed"
                   ELSE IF Contains(<<"[TEST FAILED]">>, log) THEN "test_failed"
                   ELSE ""
             fp == IF ft = "build_failed" THEN <<"Build failed">>
                   ELSE IF ft = "test_failed" THEN <<"The unit test failed">>
                   ELSE failed_prompt
         IN
         /\ hist' = [hist EXCEPT !.tests = @ + 1,
                        !.tested = [ran |-> TRUE, iteration |-> iteration,
                                    build_ok |-> build_code = 0,
                                    test_ok |-> InSeq("test_cmd", r.cmds) /\ test_code = 0,
                                    log |-> log, llm_log |-> llm_log]]
         /\ IF r.result.kind = "raise"
            THEN /\ pc' = "crashed"
                 /\ UNCHANGED <<build_test_log, failed_prompt, build_fail_count,
                                test_fail_count, last_failure_type, failed_files,
                                prompt_feedback>>
            ELSE /\ build_test_log' = log
                 /\ IF Contains(<<"[TEST PASSED]">>, log)
                    THEN /\ pc' = "after"
                         /\ UNCHANGED <<failed_prompt, build_fail_count,
                                        test_fail_count, last_failure_type,
                                        failed_files, prompt_feedback>>
                    ELSE /\ failed_prompt' = fp
                         /\ build_fail_count' =
                                build_fail_count + (IF ft = "build_failed" THEN 1 ELSE 0)
                         /\ test_fail_count' =
                                test_fail_count + (IF ft = "test_failed" THEN 1 ELSE 0)
                         /\ last_failure_type' =
                                IF ft = "" THEN last_failure_type ELSE ft
                         /\ failed_files' =
                                IF ft = "" THEN failed_files
                                ELSE save_failed_patch(failed_files, prompt_num,
                                         iteration, diff_patch, llm_log, log, ft)
                         /\ IF fp = <<>>
                            THEN pc' = "crashed" /\ UNCHANGED prompt_feedback
                            ELSE /\ pc' = "loop"
                                 /\ prompt_feedback' =
                                        FeedbackPrompt(fp, log, prompt_content, llm_log)
    /\ UNCHANGED <<run, todo, prompt_num, total_try, good_try, pass_count,
                   format_fail_count, iteration, diff_patch, llm_log, status,
                   imp, tree, output_files, stats_file, call>>

\* main after the loop, the last log holding no "[TEST PASSED]": the prompt
\* is recorded as failed.
Main_RecordFail ==
    /\ pc = "after"
    /\ ~Contains(<<"[TEST PASSED]">>, build_test_log)
    /\ stats_file' = write_stats(stats_file, prompt_num, "fail", last_failure_type)
    /\ pc' = "next"
    /\ UNCHANGED <<run, todo, prompt_num, counters, locals, imp, tree,
                   output_files, failed_files, hist, call>>

\* main after the loop, the last log holding "[TEST PASSED]": the patch and
\* the LLM output are written to promptN.diff and promptN.diff.log and the
\* prompt is recorded as passed.
Main_SavePass ==
    /\ pc = "after"
    /\ Contains(<<"[TEST PASSED]">>, build_test_log)
    /\ good_try' = good_try + 1
    /\ pass_count' = pass_count + 1
    /\ output_files' = [output_files EXCEPT ![prompt_num] =
                           [exists |-> TRUE, diff |-> diff_patch.s, log |-> llm_log.text,
                            mtime |-> run]]
    /\ stats_file' = write_stats(stats_file, prompt_num, "pass", "")
    /\ pc' = "next"
    /\ UNCHANGED <<run, todo, prompt_num, total_try, build_fail_count,
                   test_fail_count, format_fail_count, locals, imp, tree,
                   failed_files, hist, call>>

Next ==
    \/ Main_Start
    \/ Main_End
    \/ Main_SkipExisting
    \/ Main_ReadPrompt
    \/ Main_Iterate
    \/ Main_LoopExit
    \/ Improve_CallLlm
    \/ Improve_ApplyDiff
    \/ Improve_Return
    \/ Main_FormatFailed
    \/ Main_RunUnitTest
    \/ Main_RecordFail
    \/ Main_SavePass

Spec == Init /\ [][Next]_vars

(***************************************************************************)
(* The functions called on their own: the arguments are drawn in the       *)
(* initial state, the call is one step.                                    *)
(***************************************************************************)
PipelineOff == PipelineInit("off")

\* Texts a JSON string of an LLM output may hold.
JsonTexts == {<<>>, <<"a">>, <<"filepath">>, <<"filepath", " ", "search", " ", "replace">>}
\* Key lists a JSON object of an LLM output may have.
KeyLists == {<<>>, <<(<<"filepath">>)>>, <<(<<"filepath">>), (<<"search">>)>>,
             RequiredKeys, Append(RequiredKeys, <<"note">>),
             <<(<<"filepath", " ", "search", " ", "replace">>)>>}
ObjWithKeys(keys) == JObj(keys, [i \in 1..Len(keys) |-> JStr(<<"a">>)])
\* What an element of the fenced JSON array may be.
JsonElements ==
    {JNull, JBool, JNum}
    \cup {JStr(t) : t \in JsonTexts}
    \cup {ObjWithKeys(k) : k \in KeyLists}
    \cup {JArr(<<>>), JArr([i \in 1..3 |-> JStr(RequiredKeys[i])])}
JsonArrays == UNION {{JArr(items) : items \in [1..n -> JsonElements]} : n \in 0..MaxBlocks}
JsonValues == JsonElements \cup JsonArrays

ExtractInputs ==
    {LlmLog(<<"out">>, FALSE, "none", JNull), LlmLog(<<"out">>, TRUE, "none", JNull),
     LlmLog(<<"out">>, TRUE, "bad", JNull)}
    \cup {LlmLog(<<"out">>, TRUE, "json", v) : v \in JsonValues}

InitExtract ==
    /\ PipelineOff
    /\ args \in {[fn |-> "extract_diff_json", llm_log |-> l] : l \in ExtractInputs}
    /\ ret = NoCall

Call_extract_diff_json ==
    /\ args.fn = "extract_diff_json"
    /\ ret = NoCall
    /\ ret' = [fn |-> "extract_diff_json", result |-> extract_diff_json(args.llm_log)]
    /\ UNCHANGED <<pc, run, todo, prompt_num, counters, locals, imp, tree, files,
                   hist, args>>

SpecExtract == InitExtract /\ [][Call_extract_diff_json]_vars

\* The blocks an LLM output may hold for apply_diff: the tracked file or a
\* path that names no file, any search text, a short replace text.
MaxReplaceLen == 1
BlockInputs ==
    {Block(f, se, re) : f \in {<<TrackedFile>>, <<"Missing.java">>},
                        se \in StrUpTo(MaxLen), re \in StrUpTo(MaxReplaceLen)}
ApplyLogs ==
    {LlmLog(<<"out">>, TRUE, "json", JArr(items)) :
        items \in UNION {[1..n -> BlockInputs] : n \in 1..MaxBlocks}}
    \cup {LogNoFence, LogNumber,
          LlmLog(<<"out">>, TRUE, "json", JArr(<<JStr(<<"filepath", " ", "search", " ", "replace">>)>>))}

InitApply ==
    /\ PipelineOff
    /\ args \in {[fn |-> "apply_diff", tree |-> t, llm_log |-> l, git_ok |-> g] :
                    t \in {ParentTree, DirtyTree}, l \in ApplyLogs, g \in BOOLEAN}
    /\ ret = NoCall

Call_apply_diff ==
    /\ args.fn = "apply_diff"
    /\ ret = NoCall
    /\ LET r == apply_diff(args.tree, args.llm_log, args.git_ok) IN
       ret' = [fn |-> "apply_diff", result |-> r.result, tree |-> r.tree,
               writes |-> r.writes]
    /\ UNCHANGED <<pc, run, todo, prompt_num, counters, locals, imp, tree, files,
                   hist, args>>

SpecApply == InitApply /\ [][Call_apply_diff]_vars

InitUnitTest ==
    /\ PipelineOff
    /\ args \in {[fn |-> "run_unit_test", repo_name |-> r, wrapper_exists |-> w,
                  build_code |-> bc, build_log |-> bl, test_code |-> tc, test_log |-> tl] :
                    r \in Repos, w \in BOOLEAN, bc \in ExitCodes, bl \in CmdOutputs,
                    tc \in ExitCodes, tl \in CmdOutputs}
    /\ ret = NoCall

Call_run_unit_test ==
    /\ args.fn = "run_unit_test"
    /\ ret = NoCall
    /\ LET r == run_unit_test(args.repo_name, args.wrapper_exists, args.build_code,
                              args.build_log, args.test_code, args.test_log) IN
       ret' = [fn |-> "run_unit_test", result |-> r.result, cmds |-> r.cmds]
    /\ UNCHANGED <<pc, run, todo, prompt_num, counters, locals, imp, tree, files,
                   hist, args>>

SpecUnitTest == InitUnitTest /\ [][Call_run_unit_test]_vars

(***************************************************************************)
(* call_llms.py: the provider functions and call_llm.  What an SDK does    *)
(* with a request is not code of the repository: its reply (a text, or an  *)
(* exception) is an input.  A result lists the provider requests made.      *)
(***************************************************************************)
SdkError == [raises |-> TRUE, text |-> <<>>]
SdkReply(t) == [raises |-> FALSE, text |-> t]
Request(provider, model_id, prompt) ==
    [provider |-> provider, model |-> model_id,
     messages |-> <<[role |-> "system", content |-> "persona"],
                    [role |-> "user", content |-> prompt]>>]
LlmReturn(value, calls) == [kind |-> "return", exc |-> "", value |-> value, calls |-> calls]
LlmRaise(exc, calls) == [kind |-> "raise", exc |-> exc, value |-> <<>>, calls |-> calls]
Provider(provider, model_id, prompt, reply, strip) ==
    LET calls == <<Request(provider, model_id, prompt)>> IN
    IF reply.raises THEN LlmRaise("SdkError", calls)
    ELSE LlmReturn(IF strip THEN Strip(reply.text) ELSE reply.text, calls)

improve_code_with_gpt(prompt, reply) ==
    Provider("openai", "gpt-4o-mini", prompt, reply, FALSE)
improve_code_with_llama(prompt, reply) ==
    Provider("transformers", "meta-llama/Meta-Llama-3.1-8B-Instruct", prompt, reply, TRUE)
improve_code_with_deepseek(prompt, reply) ==
    Provider("deepseek", "deepseek-chat", prompt, reply, FALSE)
improve_code_with_gemini(prompt, reply) ==
    Provider("genai", "gemini-2.5-pro", prompt, reply, FALSE)
improve_code_with_claude(prompt, reply) ==
    Provider("anthropic", "claude-sonnet-4-20250514", prompt, reply, FALSE)

\* call_llm with a last branch that falls back to a provider instead of raising.
call_llm_fallback(model_name, prompt, reply) ==
    IF model_name = "gpt" THEN improve_code_with_gpt(prompt, reply)
    ELSE IF model_name = "llama" THEN improve_code_with_llama(prompt, reply)
    ELSE IF model_name = "deepseek" THEN improve_code_with_deepseek(prompt, reply)
    ELSE IF model_name = "gemini" THEN improve_code_with_gemini(prompt, reply)
    ELSE improve_code_with_claude(prompt, reply)

call_llm(model_name, prompt, reply) ==
    IF model_name = "gpt" THEN improve_code_with_gpt(prompt, reply)
    ELSE IF model_name = "llama" THEN improve_code_with_llama(prompt, reply)
    ELSE IF model_name = "deepseek" THEN improve_code_with_deepseek(prompt, reply)
    ELSE IF model_name = "gemini" THEN improve_code_with_gemini(prompt, reply)
    ELSE IF model_name = "claude" THEN improve_code_with_claude(prompt, reply)
    ELSE LlmRaise("ValueError", <<>>)

\* Model names a caller may pass: the five supported ones and others.
ModelNames == {"gpt", "llama", "deepseek", "gemini", "claude",
               "GPT", "", "gpt-4o-mini", "claude "}
SdkReplies == {SdkError} \cup {SdkReply(t) : t \in {<<"a">>, <<" ", "a", "\n">>}}

InitCallLlm ==
    /\ PipelineOff
    /\ args \in {[fn |-> "call_llm", model_name |-> m, prompt |-> p, reply |-> r] :
                    m \in ModelNames, p \in StrUpTo(MaxLen), r \in SdkReplies}
    /\ ret = NoCall

Call_call_llm ==
    /\ args.fn = "call_llm"
    /\ ret = NoCall
    /\ ret' = [fn |-> "call_llm", result |-> call_llm(args.model_name, args.prompt, args.reply)]
    /\ UNCHANGED <<pc, run, todo, prompt_num, counters, locals, imp, tree, files,
                   hist, args>>

SpecCallLlm == InitCallLlm /\ [][Call_call_llm]_vars

(***************************************************************************)
(* generate_prompts.py: extract_function.  A Java file is a sequence of    *)
(* characters; reading the file is taken to succeed.                       *)
(***************************************************************************)
MaxSrcLen == 5
SrcAlphabet == {"f", "(", "{", "}", " "}
SrcUpTo(n) == UNION {[1..k -> SrcAlphabet] : k \in 0..n}

\* Python s.find(sub), counted from 1: 0 when sub does not occur.
Find(s, sub) ==
    IF Contains(sub, s)
    THEN CHOOSE i \in 1..(Len(s) - Len(sub) + 1) :
            /\ SubSeq(s, i, i + Len(sub) - 1) = sub
            /\ \A j \in 1..(i - 1) : SubSeq(s, j, j + Len(sub) - 1) # sub
    ELSE 0

\* The while loop of extract_function: i is the position of the character
\* read next, the value is the position of the last character kept.
RECURSIVE ScanBraces(_, _, _)
ScanBraces(source_code, i, brace_count) ==
    IF i > Len(source_code) THEN Len(source_code)
    ELSE LET char == source_code[i]
             count == IF char = "{" THEN brace_count + 1
                      ELSE IF char = "}" THEN brace_count - 1
                      ELSE brace_count
         IN IF count = 0 THEN i ELSE ScanBraces(source_code, i + 1, count)

extract_function(source_code, function_name) ==
    LET start_marker == function_name \o <<"(">>
        start_index == Find(source_code, start_marker)
    IN IF start_index # 0
       THEN RStr(Strip(SubSeq(source_code, start_index,
                              ScanBraces(source_code, start_index, 0))))
       ELSE RRaise("ValueError")

FunctionNames == {<<"f">>, <<"f", "f">>, <<"g">>}

InitExtractFunction ==
    /\ PipelineOff
    /\ args \in {[fn |-> "extract_function", source_code |-> s, function_name |-> n] :
                    s \in SrcUpTo(MaxSrcLen), n \in FunctionNames}
    /\ ret = NoCall

Call_extract_function ==
    /\ args.fn = "extract_function"
    /\ ret = NoCall
    /\ ret' = [fn |-> "extract_function",
               result |-> extract_function(args.source_code, args.function_name)]
    /\ UNCHANGED <<pc, run, todo, prompt_num, counters, locals, imp, tree, files,
                   hist, args>>

SpecExtractFunction == InitExtractFunction /\ [][Call_extract_function]_vars

(***************************************************************************)
(* generate_prompts.py: generate_prompts.  Paths and texts are sequences   *)
(* of characters and words; the checkout is a function from the paths of   *)
(* its files to their contents, one at the commit and one at its parent.   *)
(***************************************************************************)
EndsWith(s, p) == Len(s) >= Len(p) /\ SubSeq(s, Len(s) - Len(p) + 1, Len(s)) = p

\* Python s.split(): the maximal runs of non-blank characters.
RECURSIVE SplitWsFrom(_, _)
SplitWsFrom(s, cur) ==
    IF s = <<>> THEN (IF cur = <<>> THEN <<>> ELSE <<cur>>)
    ELSE IF Head(s) \in WS
         THEN (IF cur = <<>> THEN <<>> ELSE <<cur>>) \o SplitWsFrom(Tail(s), <<>>)
         ELSE SplitWsFrom(Tail(s), Append(cur, Head(s)))
SplitWs(s) == SplitWsFrom(s, <<>>)

\* Python s.rsplit(".", 1): the parts around the last "."; one part when
\* there is none (unpacking it into two names then raises ValueError).
RSplitDot(s) ==
    LET dots == {i \in 1..Len(s) : s[i] = "."} IN
    IF dots = {} THEN <<s>>
    ELSE LET i == CHOOSE d \in dots : \A e \in dots : e <= d
         IN <<SubSeq(s, 1, i - 1), SubSeq(s, i + 1, Len(s))>>

\* os.path.join(a, b) for a relative b.
PathJoin(a, b) == IF a = <<>> \/ a[Len(a)] = "/" THEN a \o b ELSE a \o <<"/">> \o b

read_file(fs, file_path) ==
    IF file_path \in DOMAIN fs THEN RStr(fs[file_path]) ELSE RRaise("FileNotFoundError")

\* extract_function on a path: the file is read first.
extract_function_at(fs, file_path, function_name) ==
    IF file_path \in DOMAIN fs THEN extract_function(fs[file_path], function_name)
    ELSE RRaise("FileNotFoundError")

extract_benchmark_function(fs, benchmark_path) ==
    IF Contains(<<".">>, benchmark_path)
    THEN LET parts == RSplitDot(benchmark_path) IN
         extract_function_at(fs, PathJoin(<<".", ".", "/">>, parts[1] \o <<".", "java">>),
                             parts[2])
    ELSE read_file(fs, PathJoin(<<".", ".", "/">>, benchmark_path \o <<".", "java">>))

extract_source_code_funtion(fs, source_code_path) ==
    IF ~(EndsWith(source_code_path, <<".", "java">>)
         \/ EndsWith(source_code_path, <<".", "scala">>))
    THEN LET parts == RSplitDot(source_code_path) IN
         IF Len(parts) # 2 THEN RRaise("ValueError")
         ELSE extract_function_at(fs, parts[1] \o <<".", "java">>, parts[2])
    ELSE read_file(fs, source_code_path)

\* The list comprehensions of generate_prompts: ">>> file_path: path\ncode"
\* for every path, joined with line breaks; the first exception ends it.
RECURSIVE Sections(_, _, _)
Sections(fs, paths, byFunction) ==
    IF paths = <<>> THEN RList(<<>>)
    ELSE LET code == IF byFunction THEN extract_source_code_funtion(fs, Head(paths))
                     ELSE read_file(fs, Head(paths))
             rest == Sections(fs, Tail(paths), byFunction)
         IN IF code.kind = "raise" THEN code
            ELSE IF rest.kind = "raise" THEN rest
            ELSE RList(<<(<<">>> file_path: ">> \o Head(paths) \o <<"\n">> \o code.s)>>
                       \o rest.blocks)

SourceHeader == <<">> The source files are:", "\n">>
TestHeader == <<">> The unit tests are:", "\n">>
IssueHeader == <<">> The performance issue is:", "\n">>
BenchmarkHeader == <<">> The target benchmark functions are:", "\n">>
Rule == <<"\n", "---------", "\n">>

\* json_data is the task description, atCommit and atParent the files of the
\* checkout after `git reset --hard commit_hash` and after `git reset --hard
\* HEAD~1`.  The value is the result and the checkout left behind.
generate_prompts(json_data, repo, repo_exists, atCommit, atParent, before) ==
    LET repo_dir == PathJoin(<<".", ".", "/">>, repo)
        unittest_paths == [i \in 1..Len(SplitWs(json_data.unittest)) |->
                              PathJoin(repo_dir, SplitWs(json_data.unittest)[i])]
        unittest_code == Sections(atCommit, unittest_paths, FALSE)
        benchmark_code == extract_benchmark_function(atCommit, PathJoin(repo, json_data.jmh_case))
        source_code_paths == [i \in 1..Len(SplitWs(json_data.source_code)) |->
                                 PathJoin(repo_dir, SplitWs(json_data.source_code)[i])]
        source_code == Sections(atParent, source_code_paths, TRUE)
        prompt1 == SourceHeader \o Join(<<"\n">>, source_code.blocks) \o Rule
                   \o TestHeader \o Join(<<"\n">>, unittest_code.blocks) \o <<"\n">>
        prompt2 == IssueHeader \o json_data.description \o Rule \o prompt1 \o <<"\n">>
        prompt3 == prompt1 \o Rule \o BenchmarkHeader \o benchmark_code.s \o <<"\n">>
        prompt4 == prompt2 \o Rule \o BenchmarkHeader \o benchmark_code.s \o <<"\n">>
    IN IF ~repo_exists THEN [result |-> RNone, checkout |-> before]
       ELSE IF unittest_code.kind = "raise" THEN [result |-> unittest_code, checkout |-> atCommit]
       ELSE IF benchmark_code.kind = "raise" THEN [result |-> benchmark_code, checkout |-> atCommit]
       ELSE IF source_code.kind = "raise" THEN [result |-> source_code, checkout |-> atParent]
       ELSE [result |-> RList(<<prompt1, prompt2, prompt3, prompt4>>), checkout |-> atParent]

\* A repository with a test, a source file and a benchmark class.
RepoName == <<"R">>
RepoFile(name) == <<".", ".", "/", "R", "/", name, ".", "java">>
BenchmarkClasses == {<<"c", "{", "f", "(", "{", "b", "}", "}">>,
                     <<"f", "(", "{", "{", "b", "}", "}", " ">>,
                     <<"g", "(", "{", "b", "}">>}
FilesAtCommit(bench) ==
    (RepoFile("T") :> <<"t">>) @@ (RepoFile("A") :> <<"f", "(", "{", "s", "2", "}">>)
    @@ (RepoFile("Bench") :> bench)
\* `git reset --hard HEAD~1` leaving the files as they were.
FilesAtParent_noreset(bench) == FilesAtCommit(bench)

\* The parent commit's files: the test, the source file and the benchmark
\* class before the developer's commit.
FilesAtParent(bench) ==
    (RepoFile("T") :> <<"t", "0">>) @@ (RepoFile("A") :> <<"f", "(", "{", "s", "1", "}">>)
    @@ (RepoFile("Bench") :> <<"o">> \o bench)
UnittestFields == {<<"T", ".", "java">>, <<" ", "T", ".", "java", "\n", "T", ".", "java">>,
                   <<"U", ".", "java">>}
SourceFields == {<<"A", ".", "java">>, <<"A", ".", "f">>, <<"A", ".", "java", " ", "A", ".", "f">>}
JmhCases == {<<"Bench">>, <<"Bench", ".", "f">>}
TaskFiles ==
    {[unittest |-> u, source_code |-> s, jmh_case |-> j, description |-> d] :
        u \in UnittestFields, s \in SourceFields, j \in JmhCases, d \in StrUpTo(MaxLen)}

InitGeneratePrompts ==
    /\ PipelineOff
    /\ args \in {[fn |-> "generate_prompts", json_data |-> t, repo_exists |-> e, bench |-> b] :
                    t \in TaskFiles, e \in BOOLEAN, b \in BenchmarkClasses}
    /\ ret = NoCall

Call_generate_prompts ==
    /\ args.fn = "generate_prompts"
    /\ ret = NoCall
    /\ LET r == generate_prompts(args.json_data, RepoName, args.repo_exists,
                                 FilesAtCommit(args.bench), FilesAtParent(args.bench),
                                 FilesAtCommit(args.bench)) IN
       ret' = [fn |-> "generate_prompts", result |-> r.result, checkout |-> r.checkout]
    /\ UNCHANGED <<pc, run, todo, prompt_num, counters, locals, imp, tree, files,
                   hist, args>>

SpecGeneratePrompts == InitGeneratePrompts /\ [][Call_generate_prompts]_vars

(***************************************************************************)
(* Analysis/preprocessing/final_score.py.  A data frame is the sequence of *)
(* its rows, a row a record of its columns; scores are whole numbers (a    *)
(* fixed unit).  NaN is the missing value pandas reads from an empty cell. *)
(***************************************************************************)
MaxRows == 3
NaN == "NaN"
\* pandas ==: a missing value equals nothing, itself included.
PdEq(a, b) == a # NaN /\ b # NaN /\ a = b

\* idxmax replaced by the first developer row of the task.
IdxMax_first(developer_data, h) ==
    LET group == {i \in 1..Len(developer_data) : developer_data[i].hash_value = h}
    IN CHOOSE i \in group : \A j \in group : i <= j

\* Series.idxmax of the developer rows of one task: the first row holding
\* the largest normalized_performance.
IdxMax(developer_data, h) ==
    LET group == {i \in 1..Len(developer_data) : developer_data[i].hash_value = h}
        best == {i \in group : \A j \in group :
                    developer_data[j].normalized_performance
                        <= developer_data[i].normalized_performance}
    IN CHOOSE i \in best : \A j \in best : i <= j

ModelRank(m) == IF m = "developer" THEN 1 ELSE 2
\* The order of sort_values on (project, hash_value, model, prompt, trial);
\* project and prompt are the same on every row here.
RowBefore(a, b) ==
    \/ a.hash_value < b.hash_value
    \/ a.hash_value = b.hash_value /\ ModelRank(a.model) < ModelRank(b.model)
    \/ a.hash_value = b.hash_value /\ a.model = b.model /\ a.trial < b.trial
RECURSIVE InsertRow(_, _)
InsertRow(row, sorted) ==
    IF sorted = <<>> THEN <<row>>
    ELSE IF RowBefore(row, Head(sorted)) THEN <<row>> \o sorted
    ELSE <<Head(sorted)>> \o InsertRow(row, Tail(sorted))
RECURSIVE SortRows(_)
SortRows(rows) ==
    IF rows = <<>> THEN <<>>
    ELSE InsertRow(rows[Len(rows)], SortRows(SubSeq(rows, 1, Len(rows) - 1)))

\* fillna_inplace: whether `filtered_data['params'].fillna('', inplace=True)`
\* reaches filtered_data (it does not under pandas' copy-on-write).
\* The value holds the rows kept by step 3 and the rows of the CSV written.
calculate_representative_benchmark_scores(data, fillna_inplace) ==
    LET dev_hashes == {data[i].hash_value :
                          i \in {j \in 1..Len(data) : data[j].model = "developer"}}
        kept == SelectSeq(data, LAMBDA r : r.hash_value \in dev_hashes)
        filtered_data ==
            [i \in 1..Len(kept) |->
                IF fillna_inplace /\ kept[i].params = NaN
                THEN [kept[i] EXCEPT !.params = ""] ELSE kept[i]]
        developer_data == SelectSeq(filtered_data, LAMBDA r : r.model = "developer")
        representative(h) == developer_data[IdxMax(developer_data, h)]
        merged_data ==
            [i \in 1..Len(filtered_data) |->
                [row |-> filtered_data[i],
                 rep_benchmark |-> representative(filtered_data[i].hash_value).benchmark_name,
                 rep_params |-> representative(filtered_data[i].hash_value).params]]
        final_scores_df ==
            SelectSeq(merged_data,
                      LAMBDA m : /\ PdEq(m.row.benchmark_name, m.rep_benchmark)
                                 /\ PdEq(m.row.params, m.rep_params))
        output == [i \in 1..Len(final_scores_df) |->
                      [hash_value |-> final_scores_df[i].row.hash_value,
                       model |-> final_scores_df[i].row.model,
                       trial |-> final_scores_df[i].row.trial,
                       final_score |-> final_scores_df[i].row.normalized_performance]]
    IN [kept |-> [i \in 1..Len(final_scores_df) |-> final_scores_df[i].row],
        representatives |-> {<<h, representative(h).benchmark_name, representative(h).params>> :
                                h \in dev_hashes},
        csv |-> SortRows(output)]

TaskHashes == {1, 2}
ScoreModels == {"developer", "gpt"}
BenchmarkCases == {<<"b1", NaN>>, <<"b1", "p">>, <<"b2", NaN>>}
Performances == {1, 2}
SummaryRows ==
    {[hash_value |-> h, model |-> m, benchmark_name |-> c[1], params |-> c[2],
      normalized_performance |-> v, trial |-> 0] :
        h \in TaskHashes, m \in ScoreModels, c \in BenchmarkCases, v \in Performances}
\* The data frames of up to n rows; a row's trial is its position.
SummaryFrames(n) ==
    UNION {{[i \in 1..k |-> [f[i] EXCEPT !.trial = i]] : f \in [1..k -> SummaryRows]} :
              k \in 0..n}

InitFinalScore ==
    /\ PipelineOff
    /\ args \in {[fn |-> "calculate_representative_benchmark_scores", data |-> d,
                  fillna_inplace |-> f] : d \in SummaryFrames(MaxRows), f \in BOOLEAN}
    /\ ret = NoCall

Call_calculate_representative_benchmark_scores ==
    /\ args.fn = "calculate_representative_benchmark_scores"
    /\ ret = NoCall
    /\ ret' = [fn |-> "calculate_representative_benchmark_scores",
               result |-> calculate_representative_benchmark_scores(args.data,
                                                                    args.fillna_inplace)]
    /\ UNCHANGED <<pc, run, todo, prompt_num, counters, locals, imp, tree, files,
                   hist, args>>

SpecFinalScore == InitFinalScore /\ [][Call_calculate_representative_benchmark_scores]_vars

(***************************************************************************)
(* print_results of Analysis/preprocessing/normalize_score.py and of       *)
(* analyze_jmh/extract_score.py.  `results` is the sequence of its         *)
(* (key, entries) items in insertion order; scores are whole numbers or    *)
(* None, means and quotients are exact fractions [num, den].               *)
(***************************************************************************)
MaxEntries == 3
\* A score or an error is None or a number, <<>> or <<x>>; a cell of the
\* normalized_performance column is empty or a fraction.
None == <<>>
Num(x) == <<x>>
Frac(n, d) == [empty |-> FALSE, num |-> n, den |-> d]
EmptyCell == [empty |-> TRUE, num |-> 0, den |-> 1]

RECURSIVE SumScores(_)
SumScores(entries) ==
    IF entries = <<>> THEN 0 ELSE Head(entries).score[1] + SumScores(Tail(entries))
HasNoneScore(entries) == \E i \in 1..Len(entries) : entries[i].score = None

\* improvement < 0.05, for org_mean = so/no > 0 and dev_mean = sd/nd:
\* (org_mean - dev_mean)/org_mean for avgt and sample, (dev_mean -
\* org_mean)/org_mean for thrpt, 0.0 for any other mode and for org_mean <= 0.
ImprovementBelow5Percent_modeblind(mode, so, no, sd, nd) ==
    IF so > 0 /\ mode \in {"avgt", "sample", "thrpt"}
    THEN 20 * (so * nd - sd * no) < so * nd
    ELSE TRUE
ImprovementBelow5Percent(mode, so, no, sd, nd) ==
    IF so > 0 /\ mode \in {"avgt", "sample"} THEN 20 * (so * nd - sd * no) < so * nd
    ELSE IF so > 0 /\ mode = "thrpt" THEN 20 * (sd * no - so * nd) < so * nd
    ELSE TRUE

\* entry["score"] / org_mean turned around: org_mean / entry["score"].
NormalizedValue_inverted(mode, so, no, score) ==
    IF so > 0 /\ score # None /\ score[1] > 0
    THEN IF mode \in {"avgt", "sample"} THEN Frac(score[1] * no, so)
         ELSE IF mode = "thrpt" THEN Frac(so, no * score[1])
         ELSE EmptyCell
    ELSE EmptyCell
\* normalized_value of one entry of a group whose org_mean is so/no.
NormalizedValue(mode, so, no, score) ==
    IF so > 0 /\ score # None /\ score[1] > 0
    THEN IF mode \in {"avgt", "sample"} THEN Frac(so, no * score[1])
         ELSE IF mode = "thrpt" THEN Frac(score[1] * no, so)
         ELSE EmptyCell
    ELSE EmptyCell

QuoteParams(params) == IF params # <<>> THEN <<"\"">> \o params \o <<"\"">> ELSE <<>>

NormalizeHeader ==
    <<"hash_value", "benchmark_name", "params", "mode", "unit", "model", "prompt", "trial",
      "mean", "error", "normalized_performance">>
\* The line normalize_score.print_results writes for one entry (org is org_mean).
NormalizeRow(key, mode, unit, org, entry) ==
    [hash_value |-> key[1], benchmark_name |-> key[2], params |-> QuoteParams(key[3]),
     mode |-> mode, unit |-> unit, model |-> entry.model, prompt |-> entry.prompt,
     trial |-> entry.trial, mean |-> entry.score, error |-> entry.error,
     normalized_performance |-> NormalizedValue(mode, org.num, org.den, entry.score)]

\* str.lower() on the words of a version, and re.search(r"(gpt|gemini)", v),
\* re.search(r"(prompt\d+)", v): the first such word, "" when there is none.
LowerWord(w) == IF w = "Original" THEN "original" ELSE IF w = "Developer" THEN "developer"
                ELSE IF w = "Unknown" THEN "unknown" ELSE w
Lower(v) == [i \in 1..Len(v) |-> LowerWord(v[i])]
FirstWordIn(v, words) ==
    IF \E i \in 1..Len(v) : v[i] \in words
    THEN v[CHOOSE i \in 1..Len(v) : v[i] \in words /\ \A j \in 1..(i - 1) : v[j] \notin words]
    ELSE ""
PromptWords == {"prompt1", "prompt2", "prompt3", "prompt4"}

ExtractScoreHeader ==
    <<"hash_value", "benchmark_name", "params", "mode", "unit", "model", "prompt", "mean",
      "error">>
\* The line extract_score.print_results writes for one entry.
ExtractScoreRow(key, mode, unit, entry) ==
    LET version == Lower(entry.version) IN
    [hash_value |-> key[1], benchmark_name |-> key[2], params |-> QuoteParams(key[3]),
     mode |-> mode, unit |-> unit,
     model |-> IF version = <<"original">> THEN "original"
               ELSE IF version = <<"developer">> THEN "developer"
               ELSE FirstWordIn(version, {"gpt", "gemini"}),
     prompt |-> IF version \in {<<"original">>, <<"developer">>} THEN ""
                ELSE FirstWordIn(version, PromptWords),
     mean |-> entry.score, error |-> entry.error]

\* The two scripts differ in how an entry names its version and in the line
\* written: script is "normalize_score" or "extract_score".
IsVersion(script, entry, name) ==
    IF script = "normalize_score" THEN entry.model = name
    ELSE Lower(entry.version) = <<name>>

\* The rows one group adds to the CSV; raises |-> TRUE when a sum meets a
\* score that is None.
GroupRows(script, item) ==
    LET entries == item.entries
        originals == SelectSeq(entries, LAMBDA e : IsVersion(script, e, "original"))
        developers == SelectSeq(entries, LAMBDA e : IsVersion(script, e, "developer"))
        mode == entries[1].mode
        unit == entries[1].unit
        so == SumScores(originals)
        sd == SumScores(developers)
    IN IF entries = <<>> THEN [raises |-> FALSE, rows |-> <<>>]
       ELSE IF originals = <<>> \/ developers = <<>> THEN [raises |-> FALSE, rows |-> <<>>]
       ELSE IF HasNoneScore(originals) \/ HasNoneScore(developers)
            THEN [raises |-> TRUE, rows |-> <<>>]
       ELSE IF ImprovementBelow5Percent(mode, so, Len(originals), sd, Len(developers))
            THEN [raises |-> FALSE, rows |-> <<>>]
       ELSE [raises |-> FALSE,
             rows |-> [i \in 1..Len(entries) |->
                          IF script = "normalize_score"
                          THEN NormalizeRow(item.key, mode, unit, Frac(so, Len(originals)),
                                            entries[i])
                          ELSE ExtractScoreRow(item.key, mode, unit, entries[i])]]

\* The loop over results.items(): the lines written so far, and whether the
\* loop ended with TypeError.
RECURSIVE WriteGroups(_, _)
WriteGroups(script, results) ==
    IF results = <<>> THEN [raises |-> FALSE, rows |-> <<>>]
    ELSE LET g == GroupRows(script, Head(results))
             rest == WriteGroups(script, Tail(results))
         IN IF g.raises THEN g
            ELSE [raises |-> rest.raises, rows |-> g.rows \o rest.rows]

\* normalize_score.print_results: the header and the lines of the CSV file.
print_results(results) ==
    LET w == WriteGroups("normalize_score", results)
    IN [kind |-> IF w.raises THEN "raise" ELSE "none", header |-> NormalizeHeader,
        rows |-> w.rows]

\* extract_score.print_results.
extract_score_print_results(results) ==
    LET w == WriteGroups("extract_score", results)
    IN [kind |-> IF w.raises THEN "raise" ELSE "none", header |-> ExtractScoreHeader,
        rows |-> w.rows]

\* The entries the __main__ blocks build: the version of extract_score's
\* parse_version_from_filename next to the model, prompt and trial of
\* normalize_score's.
Entry(model, score, mode) ==
    [model |-> model,
     prompt |-> IF model \in {"original", "developer"} THEN "" ELSE "prompt1",
     trial |-> IF model \in {"original", "developer"} THEN "" ELSE "1",
     version |-> IF model = "original" THEN <<"Original">>
                 ELSE IF model = "developer" THEN <<"Developer">>
                 ELSE <<model, "-", "prompt1">>,
     score |-> score, error |-> None, unit |-> "ns/op", mode |-> mode]
EntryModels == {"original", "developer", "gpt"}
Scores == {None, Num(0), Num(19), Num(20), Num(21)}
Modes == {"avgt", "sample", "thrpt", "ss"}
\* The modes of a group's first entry and of its other entries: one mode
\* throughout, or the first entry in another mode than the rest.
ModePairs == {<<x, x>> : x \in Modes} \cup {<<"avgt", "thrpt">>, <<"thrpt", "avgt">>}
EntryList(k, f, m) ==
    [i \in 1..k |-> Entry(f[i][1], f[i][2], IF i = 1 THEN m[1] ELSE m[2])]
\* A group that passes the filter, after the group under test.
PassingGroup ==
    [key |-> <<"abcdef0", "B.other", <<>>>>,
     entries |-> <<Entry("original", Num(20), "avgt"), Entry("developer", Num(19), "avgt"),
                   Entry("gpt", Num(20), "avgt")>>]
ResultsInput(entries) ==
    <<[key |-> <<"1234567", "B.run", <<"n=1">>>>, entries |-> entries], PassingGroup>>

InitPrintResults ==
    /\ PipelineOff
    /\ \E fn \in {"print_results", "extract_score.print_results"}, k \in 0..MaxEntries,
          m \in ModePairs :
          \E f \in [1..k -> EntryModels \X Scores] :
              args = [fn |-> fn, results |-> ResultsInput(EntryList(k, f, m))]
    /\ ret = NoCall

Call_print_results ==
    /\ args.fn = "print_results"
    /\ ret = NoCall
    /\ ret' = [fn |-> "print_results", result |-> print_results(args.results)]
    /\ UNCHANGED <<pc, run, todo, prompt_num, counters, locals, imp, tree, files,
                   hist, args>>

Call_extract_score_print_results ==
    /\ args.fn = "extract_score.print_results"
    /\ ret = NoCall
    /\ ret' = [fn |-> "extract_score.print_results",
               result |-> extract_score_print_results(args.results)]
    /\ UNCHANGED <<pc, run, todo, prompt_num, counters, locals, imp, tree, files,
                   hist, args>>

SpecPrintResults ==
    InitPrintResults /\ [][Call_print_results \/ Call_extract_score_print_results]_vars

(***************************************************************************)
(* Analysis/RQ2/median_performance_selection.py: select_median_scores.     *)
(* final_score is counted in hundredths (100 is the original's 1.00); all  *)
(* rows are of one project.                                                *)
(***************************************************************************)
MaxTrials == 4

\* DataFrame.sort_values('final_score') on one group: ascending; rows of
\* equal score keep their order when the sort is stable and may come in the
\* other order when it is not (the default quicksort promises neither).
ScoreBefore(a, b, stable) ==
    \/ a.final_score < b.final_score
    \/ a.final_score = b.final_score /\ ~stable
RECURSIVE InsertByScore(_, _, _)
InsertByScore(row, sorted, stable) ==
    IF sorted = <<>> THEN <<row>>
    ELSE IF ScoreBefore(row, Head(sorted), stable) THEN <<row>> \o sorted
    ELSE <<Head(sorted)>> \o InsertByScore(row, Tail(sorted), stable)
RECURSIVE SortByScore(_, _)
SortByScore(rows, stable) ==
    IF rows = <<>> THEN <<>>
    ELSE InsertByScore(rows[Len(rows)], SortByScore(SubSeq(rows, 1, Len(rows) - 1), stable),
                       stable)

\* group.nsmallest(1, 'final_score'): the first row of the smallest score.
NSmallest1(group) ==
    <<group[CHOOSE i \in 1..Len(group) :
                /\ \A j \in 1..Len(group) : group[i].final_score <= group[j].final_score
                /\ \A j \in 1..(i - 1) : group[j].final_score # group[i].final_score]>>

\* The body of the loop over the groups: the rows appended to selected_trials.
SelectTrial(group, stable) ==
    IF Len(group) = 1 THEN group
    ELSE IF Len(group) = 2 THEN NSmallest1(group)
    ELSE IF Len(group) = 3 THEN <<SortByScore(group, stable)[2]>>
    ELSE <<>>

\* The (hash_value, model, prompt) keys in the order groupby yields them.
GroupKeys == <<(<<1, "gemini", "N/A">>), (<<1, "gpt", "prompt1">>), (<<2, "gpt", "prompt1">>)>>
KeyOf(row) == <<row.hash_value, row.model, row.prompt>>
RECURSIVE SelectedTrials(_, _, _)
SelectedTrials(llm_scores, keys, stable) ==
    IF keys = <<>> THEN <<>>
    ELSE LET group == SelectSeq(llm_scores, LAMBDA r : KeyOf(r) = Head(keys))
         IN (IF group = <<>> THEN <<>> ELSE SelectTrial(group, stable))
            \o SelectedTrials(llm_scores, Tail(keys), stable)

\* dev_score_map: the final_score of the last developer row of a task, <<>>
\* for a task without one.
DevScore(developer_df, h) ==
    LET rows == {i \in 1..Len(developer_df) : developer_df[i].hash_value = h} IN
    IF rows = {} THEN <<>>
    ELSE <<developer_df[CHOOSE i \in rows : \A j \in rows : j <= i].final_score>>

apply_flags(row, developer_df) ==
    LET dev_score == DevScore(developer_df, row.hash_value) IN
    IF row.model = "developer" THEN ""
    ELSE IF dev_score # <<>> /\ row.final_score > dev_score[1] THEN "outperforms_developer"
    ELSE IF row.final_score < 100 THEN "worse_than_original"
    ELSE ""

ConfigRank(row) ==
    IF row.model = "developer" THEN 1 ELSE IF row.model = "gemini" THEN 2 ELSE 3
\* The order of step 6: dev_sort_score descending (tasks without a developer
\* row last), then model, then prompt.
FinalBefore(a, b, developer_df) ==
    LET da == DevScore(developer_df, a.hash_value)
        db == DevScore(developer_df, b.hash_value)
    IN \/ da # <<>> /\ db = <<>>
       \/ da # <<>> /\ db # <<>> /\ da[1] > db[1]
       \/ da = db /\ ConfigRank(a) < ConfigRank(b)
RECURSIVE InsertFinal(_, _, _)
InsertFinal(row, sorted, developer_df) ==
    IF sorted = <<>> THEN <<row>>
    ELSE IF FinalBefore(row, Head(sorted), developer_df) THEN <<row>> \o sorted
    ELSE <<Head(sorted)>> \o InsertFinal(row, Tail(sorted), developer_df)
RECURSIVE SortFinal(_, _)
SortFinal(rows, developer_df) ==
    IF rows = <<>> THEN <<>>
    ELSE InsertFinal(rows[Len(rows)], SortFinal(SubSeq(rows, 1, Len(rows) - 1), developer_df),
                     developer_df)

\* df is the frame read from input_csv_path; the value is final_df as it is
\* written to output_csv_path.
select_median_scores(df, stable) ==
    LET developer_df == SelectSeq(df, LAMBDA r : r.model = "developer")
        unfilled == SelectSeq(df, LAMBDA r : r.model # "developer")
        llm_scores == [i \in 1..Len(unfilled) |->
                          IF unfilled[i].prompt = NaN
                          THEN [unfilled[i] EXCEPT !.prompt = "N/A"] ELSE unfilled[i]]
        median_llm_df == SelectedTrials(llm_scores, GroupKeys, stable)
        final_df == developer_df \o median_llm_df
        flagged == [i \in 1..Len(final_df) |->
                       [hash_value |-> final_df[i].hash_value, model |-> final_df[i].model,
                        prompt |-> final_df[i].prompt, trial |-> final_df[i].trial,
                        final_score |-> final_df[i].final_score,
                        comparison_flag |-> apply_flags(final_df[i], developer_df)]]
    IN SortFinal(flagged, developer_df)

ScoreRow(h, model, prompt, trial, score) ==
    [hash_value |-> h, model |-> model, prompt |-> prompt, trial |-> trial,
     final_score |-> score]
FinalScores == {90, 100, 110}
\* The rows of one LLM group with k trials.
TrialRows(h, model, prompt, k, scores) ==
    [i \in 1..k |-> ScoreRow(h, model, prompt, i, scores[i])]

InitMedian ==
    /\ PipelineOff
    /\ \E k \in 0..MaxTrials, d \in SUBSET {1, 2}, g \in 0..1, stable \in BOOLEAN :
          \E scores \in [1..k -> FinalScores], other \in [1..g -> FinalScores] :
              args = [fn |-> "select_median_scores", stable |-> stable,
                      df |-> (IF 1 \in d THEN <<ScoreRow(1, "developer", NaN, 0, 100)>> ELSE <<>>)
                             \o TrialRows(1, "gpt", "prompt1", k, scores)
                             \o TrialRows(1, "gemini", NaN, g, other)
                             \o (IF 2 \in d THEN <<ScoreRow(2, "developer", NaN, 0, 110)>> ELSE <<>>)
                             \o TrialRows(2, "gpt", "prompt1", g, other)]
    /\ ret = NoCall

Call_select_median_scores ==
    /\ args.fn = "select_median_scores"
    /\ ret = NoCall
    /\ ret' = [fn |-> "select_median_scores",
               result |-> select_median_scores(args.df, args.stable)]
    /\ UNCHANGED <<pc, run, todo, prompt_num, counters, locals, imp, tree, files,
                   hist, args>>

SpecMedian == InitMedian /\ [][Call_select_median_scores]_vars

(***************************************************************************)
(* Analysis/RQ1/wilcoxon_a12.py and Analysis/RQ2/wilcoxon_a12.py:          *)
(* vargha_delaney_a12, and the mirrored cell of the effect-size matrix.    *)
(* Samples are sequences of whole numbers, the statistic an exact fraction *)
(* (EmptyCell stands for np.nan).                                          *)
(***************************************************************************)
MaxSample == 3
\* The number of pairs (i, j) with x[i] > y[j] (rel ">"), x[i] = y[j] ("=") or
\* x[i] < y[j] ("<").
CountPairs(x, y, rel) ==
    Cardinality({p \in (1..Len(x)) \X (1..Len(y)) :
                    IF rel = ">" THEN x[p[1]] > y[p[2]]
                    ELSE IF rel = "=" THEN x[p[1]] = y[p[2]]
                    ELSE x[p[1]] < y[p[2]]})

\* The statistic without the half weight of the ties.
vargha_delaney_a12_noties(x, y) ==
    IF Len(x) = 0 \/ Len(y) = 0 THEN EmptyCell
    ELSE Frac(2 * CountPairs(x, y, ">"), 2 * Len(x) * Len(y))

\* r is kept in halves: num = 2 * r, den = 2 * m * n.
vargha_delaney_a12(x, y) ==
    IF Len(x) = 0 \/ Len(y) = 0 THEN EmptyCell
    ELSE Frac(2 * CountPairs(x, y, ">")
                  + CountPairs(x, y, "="),
              2 * Len(x) * Len(y))

\* 1 - effect_size_matrix.T: the cell (B, A) filled from the cell (A, B).
MirroredEffect(a12) == IF a12.empty THEN EmptyCell ELSE Frac(a12.den - a12.num, a12.den)

SampleValues == {1, 2, 3}

InitA12 ==
    /\ PipelineOff
    /\ \E m \in 0..MaxSample, n \in 0..MaxSample :
          \E x \in [1..m -> SampleValues], y \in [1..n -> SampleValues] :
              args = [fn |-> "vargha_delaney_a12", x |-> x, y |-> y]
    /\ ret = NoCall

Call_vargha_delaney_a12 ==
    /\ args.fn = "vargha_delaney_a12"
    /\ ret = NoCall
    /\ LET effect_size == vargha_delaney_a12(args.x, args.y) IN
       ret' = [fn |-> "vargha_delaney_a12", result |-> effect_size,
               mirrored |-> MirroredEffect(effect_size)]
    /\ UNCHANGED <<pc, run, todo, prompt_num, counters, locals, imp, tree, files,
                   hist, args>>

SpecA12 == InitA12 /\ [][Call_vargha_delaney_a12]_vars

(***************************************************************************)
(* apply_llm_changes.batch_generate_diff.  `fs` maps the path of a file    *)
(* under the model directory to its content; a directory is its listing,   *)
(* in the order os.listdir gives it.  A file name is a sequence of atoms,  *)
(* ".diff.log" and ".diff" being atoms.                                    *)
(***************************************************************************)
DiffLogSuffix == <<".diff.log">>
DiffSuffix == <<".diff">>

\* os.path.exists(path) always answering no.
Exists_never(fs, path) == FALSE

\* os.path.exists(path) for a path under the model directory.
Exists(fs, path) == path \in DOMAIN fs

\* os.path.join(commit_path, filename).
CommitPath(commit_id, filename) == <<commit_id, "/">> \o filename

\* Python truth of what apply_diff returned.
Truthy(patch_result) ==
    CASE patch_result.kind = "str" -> patch_result.s # <<>>
      [] patch_result.kind = "list" -> patch_result.blocks # <<>>
      [] OTHER -> FALSE

\* The inner loop of batch_generate_diff over the listing of one commit
\* directory.  `st` holds the files, the checkout, the calls of apply_diff
\* made so far with what each returned, and the exception that ended the
\* batch, if any.
RECURSIVE BatchFiles(_, _, _, _)
BatchFiles(listing, commit_id, git_ok, st) ==
    IF listing = <<>> \/ st.raised # <<>> THEN st
    ELSE LET filename == Head(listing)
             rest == Tail(listing)
         IN
         IF ~EndsWith(filename, DiffLogSuffix)
         THEN BatchFiles(rest, commit_id, git_ok, st)
         ELSE LET diff_log_path == CommitPath(commit_id, filename)
                  diff_file_name == Replace(filename, DiffLogSuffix, DiffSuffix)
                  diff_file_path == CommitPath(commit_id, diff_file_name)
              IN
              IF Exists(st.files, diff_file_path)
              THEN BatchFiles(rest, commit_id, git_ok, st)
              ELSE LET log_text == st.files[diff_log_path]
                       done == apply_diff(st.tree, log_text, git_ok)
                       patch_result == done.result
                       made == [log |-> diff_log_path, diff |-> diff_file_path,
                                result |-> patch_result]
                       called == [st EXCEPT !.tree = done.tree,
                                            !.calls = Append(@, made)]
                   IN
                   IF patch_result.kind = "raise"
                   THEN [called EXCEPT !.raised = <<patch_result.s>>]
                   ELSE IF ~Truthy(patch_result)
                   THEN BatchFiles(rest, commit_id, git_ok, called)
                   ELSE IF patch_result.kind # "str"
                   THEN [called EXCEPT !.raised = <<"AttributeError">>]
                   ELSE IF StartsWith(patch_result.s, FormatError)
                   THEN BatchFiles(rest, commit_id, git_ok, called)
                   ELSE BatchFiles(rest, commit_id, git_ok,
                            [called EXCEPT !.files =
                                (diff_file_path :> patch_result.s) @@ @])

\* The outer loop over the entries of the model directory.
RECURSIVE BatchCommits(_, _, _)
BatchCommits(entries, git_ok, st) ==
    IF entries = <<>> \/ st.raised # <<>> THEN st
    ELSE LET commit == Head(entries) IN
         IF ~commit.isdir
         THEN BatchCommits(Tail(entries), git_ok, st)
         ELSE BatchCommits(Tail(entries), git_ok,
                  BatchFiles(commit.listing, commit.commit_id, git_ok, st))

\* batch_generate_diff on the model directory `model_dir`.
batch_generate_diff(model_dir, fs, checkout, git_ok) ==
    LET st == [files |-> fs, tree |-> checkout, calls |-> <<>>, raised |-> <<>>] IN
    IF ~model_dir.isdir THEN st
    ELSE BatchCommits(model_dir.listing, git_ok, st)

\* The inputs: one commit directory with the logs of two prompts, the diff
\* of each already there or not, and a file that is no log; next to it an
\* entry of the model directory that is no directory.
Prompt1Log == <<"prompt1", ".diff.log">>
Prompt2Log == <<"prompt2", ".diff.log">>
Prompt1Diff == <<"prompt1", ".diff">>
Prompt2Diff == <<"prompt2", ".diff">>
NotesFile == <<"notes.txt">>
OldDiff == <<"old">>
BatchCommitId == "c1"
StrayEntry == [commit_id |-> "stray", isdir |-> FALSE, listing |-> <<>>]
BatchListings ==
    {<<Prompt1Log, NotesFile, Prompt2Log>>, <<Prompt2Log, Prompt1Log, NotesFile>>,
     <<NotesFile, Prompt1Log>>}
BatchLogs == PipelineLogs \cup
    {LlmLog(<<"out">>, TRUE, "json",
            JArr(<<Block(<<TrackedFile>>, <<"a">>, <<"a", "a">>)>>))}

BatchFs(listing, log1, log2, has1, has2) ==
    LET logs == [p \in {CommitPath(BatchCommitId, f) :
                          f \in {listing[i] : i \in 1..Len(listing)} \ {NotesFile}}
                   |-> IF p = CommitPath(BatchCommitId, Prompt1Log) THEN log1 ELSE log2]
        d1 == IF has1 THEN (CommitPath(BatchCommitId, Prompt1Diff) :> OldDiff) ELSE <<>>
        d2 == IF has2 THEN (CommitPath(BatchCommitId, Prompt2Diff) :> OldDiff) ELSE <<>>
    IN  d1 @@ d2 @@ logs

InitBatch ==
    /\ PipelineOff
    /\ \E listing \in BatchListings, log1 \in BatchLogs, log2 \in BatchLogs,
          has1 \in BOOLEAN, has2 \in BOOLEAN, isdir \in BOOLEAN,
          stray \in BOOLEAN, t \in {ParentTree, DirtyTree}, g \in BOOLEAN :
          args = [fn |-> "batch_generate_diff",
                  model_dir |->
                      [isdir |-> isdir,
                       listing |-> (IF stray THEN <<StrayEntry>> ELSE <<>>)
                           \o <<[commit_id |-> BatchCommitId, isdir |-> TRUE,
                                 listing |-> listing]>>],
                  fs |-> BatchFs(listing, log1, log2, has1, has2),
                  tree |-> t, git_ok |-> g]
    /\ ret = NoCall

Call_batch_generate_diff ==
    /\ args.fn = "batch_generate_diff"
    /\ ret = NoCall
    /\ LET r == batch_generate_diff(args.model_dir, args.fs, args.tree, args.git_ok) IN
       ret' = [fn |-> "batch_generate_diff", files |-> r.files, tree |-> r.tree,
               calls |-> r.calls, raised |-> r.raised]
    /\ UNCHANGED <<pc, run, todo, prompt_num, counters, locals, imp, tree, files,
                   hist, args>>

SpecBatch == InitBatch /\ [][Call_batch_generate_diff]_vars


(***************************************************************************)
(* Calls of apply_diff one after the other on one checkout, as             *)
(* improve_code_with_llm and main make them: after a patch run_unit_test   *)
(* may run and edit the build files, after any result the next call may    *)
(* come.  `ret` holds the checkout, the tree the last call started from,   *)
(* what it returned and what the call before it returned.                  *)
(***************************************************************************)
\* The number of calls of apply_diff on the checkout.
MaxAttempts == 3

\* An output whose first block applies and whose second is not found.
LogPartial == LlmLog(<<"out:partial">>, TRUE, "json",
                     JArr(<<Block(<<TrackedFile>>, <<"a">>, <<"a", "a">>),
                            Block(<<TrackedFile>>, <<"z">>, <<>>)>>))
LogOtherPatch == LlmLog(<<"out:other">>, TRUE, "json",
                        JArr(<<Block(<<TrackedFile>>, <<"\n">>, <<"\n", "a", "\n">>)>>))
AttemptLogs == {LogPatch, LogOtherPatch, LogPartial, LogNoFence}

\* improve_code_with_llm returns "Success" and main runs the tests.
IsPatch(diff_patch_) ==
    diff_patch_.kind = "str" /\ ~Contains(FormatError, diff_patch_.s)

InitAttempts ==
    /\ PipelineOff
    /\ \E r \in Repos, w \in BOOLEAN, t \in {ParentTree, DirtyTree} :
          /\ args = [fn |-> "attempts", repo_name |-> r, wrapper_exists |-> w]
          /\ ret = [fn |-> "attempts", step |-> "start", n |-> 0, tree |-> t,
                    before |-> t, log |-> LogNoFence, result |-> RNone,
                    earlier |-> RNone]

Attempt_apply_diff ==
    /\ args.fn = "attempts"
    /\ ret.n < MaxAttempts
    /\ \E l \in AttemptLogs, g \in BOOLEAN :
          LET r == apply_diff(ret.tree, l, g) IN
          ret' = [fn |-> "attempts", step |-> "applied", n |-> ret.n + 1,
                  tree |-> r.tree, before |-> ret.tree, log |-> l,
                  result |-> r.result, earlier |-> ret.result]
    /\ UNCHANGED <<pc, run, todo, prompt_num, counters, locals, imp, tree, files,
                   hist, args>>

Attempt_run_unit_test ==
    /\ args.fn = "attempts"
    /\ ret.step = "applied"
    /\ IsPatch(ret.result)
    /\ ret' = [ret EXCEPT !.step = "tested",
                          !.tree = WorkaroundEdits(args.repo_name,
                                                   args.wrapper_exists, @)]
    /\ UNCHANGED <<pc, run, todo, prompt_num, counters, locals, imp, tree, files,
                   hist, args>>

SpecAttempts == InitAttempts /\ [][Attempt_apply_diff \/ Attempt_run_unit_test]_vars


(***************************************************************************)
(* One task from its prompts to its build/test runs.  The repository has   *)
(* the developer's commit (commit_hash) and its parent; the checkout is    *)
(* the files of one of them, with the LLM's edits.  generate_prompts       *)
(* leaves the prompts; then apply_diff and run_unit_test follow each       *)
(* other as in main.                                                       *)
(***************************************************************************)
\* The files after `git reset --hard commit_hash`; the developer's commit
\* changed the source file and, when test_changed, the unit test.
TaskFilesAtCommit(bench) == FilesAtCommit(bench)
\* The files after `git reset --hard HEAD~1` from there.
TaskFilesAtParent(bench, test_changed) ==
    IF test_changed THEN FilesAtParent(bench)
    ELSE [FilesAtParent(bench) EXCEPT ![RepoFile("T")] = FilesAtCommit(bench)[RepoFile("T")]]

\* apply_diff on the task's checkout: the reset to the parent of the commit,
\* then the blocks of the LLM output, which put `edit` after the source
\* file's text (none when it is empty).
TaskApplyDiff(bench, test_changed, edit) ==
    LET reset == TaskFilesAtParent(bench, test_changed) IN
    [reset EXCEPT ![RepoFile("A")] = @ \o edit]

\* The unit test run_unit_test runs: the class of the first path of the
\* task's unittest field, as the working tree has it.
TestsRun(json_data, worktree) ==
    LET unit_test_paths == SplitWs(json_data.unittest) IN
    worktree[PathJoin(PathJoin(<<".", ".", "/">>, RepoName), unit_test_paths[1])]

LlmEdits == {<<>>, <<"x">>}
RunnableTasks == {t \in TaskFiles : t.unittest # <<"U", ".", "java">>
                                    /\ t.description = <<>>}

InitTask ==
    /\ PipelineOff
    /\ \E t \in RunnableTasks, b \in BenchmarkClasses, c \in BOOLEAN :
          /\ args = [fn |-> "task", json_data |-> t, bench |-> b, test_changed |-> c]
          /\ ret = [fn |-> "task", step |-> "start", n |-> 0,
                    checkout |-> TaskFilesAtCommit(b), prompts |-> RNone,
                    tests_run |-> <<>>]

Task_generate_prompts ==
    /\ args.fn = "task"
    /\ ret.step = "start"
    /\ LET r == generate_prompts(args.json_data, RepoName, TRUE,
                                 TaskFilesAtCommit(args.bench),
                                 TaskFilesAtParent(args.bench, args.test_changed),
                                 ret.checkout) IN
       ret' = [ret EXCEPT !.step = "prompted", !.checkout = r.checkout,
                          !.prompts = r.result]
    /\ UNCHANGED <<pc, run, todo, prompt_num, counters, locals, imp, tree, files,
                   hist, args>>

Task_apply_diff ==
    /\ args.fn = "task"
    /\ ret.step \in {"prompted", "tested"}
    /\ ret.prompts.kind = "list"
    /\ ret.n < MaxAttempts
    /\ \E edit \in LlmEdits :
          ret' = [ret EXCEPT !.step = "applied", !.n = @ + 1,
                             !.checkout = TaskApplyDiff(args.bench, args.test_changed, edit)]
    /\ UNCHANGED <<pc, run, todo, prompt_num, counters, locals, imp, tree, files,
                   hist, args>>

Task_run_unit_test ==
    /\ args.fn = "task"
    /\ ret.step = "applied"
    /\ ret' = [ret EXCEPT !.step = "tested",
                          !.tests_run = TestsRun(args.json_data, ret.checkout)]
    /\ UNCHANGED <<pc, run, todo, prompt_num, counters, locals, imp, tree, files,
                   hist, args>>

SpecTask == InitTask /\ [][Task_generate_prompts \/ Task_apply_diff
                           \/ Task_run_unit_test]_vars


(***************************************************************************)
(* The three selections of a representative trial.  A group is the trial   *)
(* rows of one (task, model, prompt) in file order; what a selection gives *)
(* is the sequence of the scores it selected (empty when it selected no    *)
(* trial of the group).                                                    *)
(***************************************************************************)
ScoresOf(rows) == [i \in 1..Len(rows) |-> rows[i].final_score]

\* median_performance_selection.py: the loop body of select_median_scores.
MedianSelection(group, stable) == ScoresOf(SelectTrial(group, stable))

\* Analysis/RQ1/generate_model_performance_table.py: the selection loop on
\* the (trial, score) pairs of one key.  list.sort is stable.
TableSelection(trials_scores) ==
    IF Len(trials_scores) = 1 THEN <<trials_scores[1].final_score>>
    ELSE IF Len(trials_scores) = 2
    THEN <<SortByScore(trials_scores, TRUE)[1].final_score>>
    ELSE LET idx == Len(trials_scores) \div 2 IN
         <<SortByScore(trials_scores, TRUE)[idx + 1].final_score>>

\* analyze_jmh/summary_tasks.py, summarize_performance_by_hash: only the
\* rows of gpt and gemini are grouped; the score column is GMean.
SummarySelection(group, stable) ==
    LET llm_scores == SelectSeq(group, LAMBDA r : r.model \in {"gpt", "gemini"}) IN
    IF Len(llm_scores) = 0 THEN <<>>
    ELSE IF Len(llm_scores) = 1 THEN ScoresOf(llm_scores)
    ELSE IF Len(llm_scores) = 2 THEN ScoresOf(NSmallest1(llm_scores))
    ELSE IF Len(llm_scores) = 3 THEN <<SortByScore(llm_scores, stable)[2].final_score>>
    ELSE <<>>

SelectionModels == {"gpt", "gemini", "deepseek-v3"}

InitSelection ==
    /\ PipelineOff
    /\ \E k \in 1..MaxTrials, model \in SelectionModels, stable \in BOOLEAN :
          \E scores \in [1..k -> FinalScores] :
              args = [fn |-> "selection", stable |-> stable,
                      group |-> TrialRows(1, model, "prompt1", k, scores)]
    /\ ret = [fn |-> "selection", done |-> {}, median |-> <<>>, table |-> <<>>,
              summary |-> <<>>]

Run_select_median_scores ==
    /\ args.fn = "selection"
    /\ "median" \notin ret.done
    /\ ret' = [ret EXCEPT !.done = @ \cup {"median"}, !.median = MedianSelection(args.group, args.stable)]
    /\ UNCHANGED <<pc, run, todo, prompt_num, counters, locals, imp, tree, files,
                   hist, args>>

Run_generate_model_performance_table ==
    /\ args.fn = "selection"
    /\ "table" \notin ret.done
    /\ ret' = [ret EXCEPT !.done = @ \cup {"table"}, !.table = TableSelection(args.group)]
    /\ UNCHANGED <<pc, run, todo, prompt_num, counters, locals, imp, tree, files,
                   hist, args>>

Run_summarize_performance_by_hash ==
    /\ args.fn = "selection"
    /\ "summary" \notin ret.done
    /\ ret' = [ret EXCEPT !.done = @ \cup {"summary"}, !.summary = SummarySelection(args.group, args.stable)]
    /\ UNCHANGED <<pc, run, todo, prompt_num, counters, locals, imp, tree, files,
                   hist, args>>

SpecSelection ==
    InitSelection /\ [][\/ Run_select_median_scores
                        \/ Run_generate_model_performance_table
                        \/ Run_summarize_performance_by_hash]_vars


(***************************************************************************)
(* categorize_performance of Analysis/RQ1/tiered_class.py and of           *)
(* analyze_jmh/summary_tasks.py.  A score is counted in thousandths (1000  *)
(* is the original's 1.0); the scores are numbers, the rows without a      *)
(* normalized performance being dropped before the scores are made.        *)
(***************************************************************************)
MinTierScore == 880
MaxTierScore == 1520
TierScores == MinTierScore..MaxTierScore

\* categorize_performance with 1.05 itself counted as an improvement.
categorize_performance_open(score) ==
    IF score < 900 THEN "Major Regression (<0.9x)"
    ELSE IF 900 <= score /\ score < 950 THEN "Minor Regression (0.9x-0.95x)"
    ELSE IF 950 <= score /\ score < 1050 THEN "No Substantial Change (0.95x-1.05x)"
    ELSE IF 1050 <= score /\ score <= 1100 THEN "Minor Improvement (1.05x-1.1x)"
    ELSE IF 1100 < score /\ score <= 1500 THEN "Major Improvement (1.1x-1.5x)"
    ELSE "Massive Improvement (>1.5x)"

\* tiered_class.py
categorize_performance(score) ==
    IF score < 900 THEN "Major Regression (<0.9x)"
    ELSE IF 900 <= score /\ score < 950 THEN "Minor Regression (0.9x-0.95x)"
    ELSE IF 950 <= score /\ score <= 1050 THEN "No Substantial Change (0.95x-1.05x)"
    ELSE IF 1050 < score /\ score <= 1100 THEN "Minor Improvement (1.05x-1.1x)"
    ELSE IF 1100 < score /\ score <= 1500 THEN "Major Improvement (1.1x-1.5x)"
    ELSE "Massive Improvement (>1.5x)"

\* summary_tasks.py, on the GMean column
categorize_performance_gmean(score) ==
    IF score < 900 THEN "Major Regression (<0.9x)"
    ELSE IF 900 <= score /\ score < 950 THEN "Minor Regression (0.9x-0.95x)"
    ELSE IF 950 <= score /\ score <= 1050 THEN "No Substantial Change (0.95x-1.05x)"
    ELSE IF 1050 < score /\ score <= 1100 THEN "Minor Improvement (1.05x-1.1x)"
    ELSE IF 1100 < score /\ score <= 1500 THEN "Major Improvement (1.1x-1.5x)"
    ELSE "Massive Improvement (>1.5x)"

InitTiers ==
    /\ PipelineOff
    /\ \E score \in TierScores : args = [fn |-> "categorize_performance", score |-> score]
    /\ ret = [fn |-> "categorize_performance", done |-> {}, Tier |-> "", GMeanTier |-> ""]

\* final_scores['final_score'].apply(categorize_performance)
Apply_categorize_performance ==
    /\ args.fn = "categorize_performance"
    /\ "final_score" \notin ret.done
    /\ ret' = [ret EXCEPT !.done = @ \cup {"final_score"},
                          !.Tier = categorize_performance(args.score)]
    /\ UNCHANGED <<pc, run, todo, prompt_num, counters, locals, imp, tree, files,
                   hist, args>>

\* final_scores['GMean'].apply(categorize_performance)
Apply_categorize_performance_gmean ==
    /\ args.fn = "categorize_performance"
    /\ "GMean" \notin ret.done
    /\ ret' = [ret EXCEPT !.done = @ \cup {"GMean"},
                          !.GMeanTier = categorize_performance_gmean(args.score)]
    /\ UNCHANGED <<pc, run, todo, prompt_num, counters, locals, imp, tree, files,
                   hist, args>>

SpecTiers ==
    InitTiers /\ [][Apply_categorize_performance \/ Apply_categorize_performance_gmean]_vars


(***************************************************************************)
(* The claims.                                                             *)
(***************************************************************************)
InLoop == pc \in {"loop", "improve", "apply", "returned", "test", "after"}
Rows == {stats_file.lines[i] : i \in 1..Len(stats_file.lines)}
LastRow == stats_file.lines[Len(stats_file.lines)]
Tags == {"[BUILD FAILED]", "[TEST FAILED]", "[TEST PASSED]"}

\* C1: main writes promptN.diff only for a verified patch: in the iteration
\* that ends with the write, apply_diff returned that very patch without
\* "[Format Error]" and the run_unit_test that followed had its build
\* command and its test command both exit with 0, whatever the log says.
C1_SavedOnlyIfVerified ==
    [][output_files' # output_files =>
          /\ status = "Success"
          /\ hist.applied = diff_patch
          /\ ~Contains(FormatError, diff_patch.s)
          /\ output_files'[prompt_num].diff = diff_patch.s
          /\ hist.tested.ran /\ hist.tested.iteration = iteration
          /\ hist.tested.build_ok /\ hist.tested.test_ok]_vars

\* C2: for one prompt file the repair loop makes at most 3 iterations: at
\* most 3 calls of improve_code_with_llm, at most 3 of run_unit_test and at
\* most 6 of call_llm, whatever their outcomes.
C2_RepairLoopBounded ==
    /\ iteration <= 3
    /\ hist.improves <= 3
    /\ hist.tests <= 3
    /\ hist.calls <= 6
    /\ hist.tests <= hist.improves
    /\ hist.calls <= 2 * hist.improves

\* C2 witness: a prompt whose result is recorded after 6 LLM calls and 3
\* build/test runs.
C2_Witness ==
    pc = "next" /\ hist.calls = 6 /\ hist.tests = 3 /\ hist.improves = 3
    /\ LastRow.status = "fail"

\* C3: once a build/test run of the prompt has failed, every later call_llm
\* for the same prompt file gets a prompt that holds the log of the most
\* recent build/test run, the original prompt text and the LLM output that
\* was built and tested.  (pc = "apply": call_llm has just been called with
\* hist.last_call.)
C3_FailureLogFedBack ==
    (pc = "apply" /\ hist.tested.ran) =>
        /\ Contains(hist.tested.log, hist.last_call)
        /\ Contains(PromptText(prompt_num), hist.last_call)
        /\ Contains(hist.tested.llm_log.text, hist.last_call)

\* C3 witness: the second attempt of iteration 3, the last build/test run
\* being that of iteration 1 (iteration 2 ended in a format failure).
C3_Witness ==
    /\ pc = "apply" /\ hist.tested.ran /\ hist.tested.iteration = 1
    /\ iteration = 3 /\ imp.iteration = 1
    /\ format_fail_count = 1

\* C4: apply_diff returns a patch without "[Format Error]" only if every
\* block of the LLM output was applied to its file: the file was written
\* with the block's search text, found in it, replaced.
BlockApplied(block, write) ==
    write.wrote /\ Contains(Get(block, <<"search">>).s, write.old)
C4_PatchOnlyIfAllBlocksApplied ==
    (/\ ret.fn = "apply_diff"
     /\ ret.result.kind = "str"
     /\ ~Contains(FormatError, ret.result.s)) =>
        LET blocks == args.llm_log.json.items IN
        /\ Len(ret.writes) = Len(blocks)
        /\ \A i \in 1..Len(blocks) : BlockApplied(blocks[i], ret.writes[i])

C6_ImproveAlwaysReturnsStatus ==
    /\ hist.calls <= 2 * hist.improves
    /\ pc = "crashed" => hist.applied.kind \notin {"str", "none"}
    /\ pc = "returned" =>
          /\ status \in {"Success", "Failed"}
          /\ hist.applied = diff_patch
          /\ status = "Success" <=> ~Contains(FormatError, diff_patch.s)

\* C7: extract_diff_json returns a list whose every element is an object
\* with the fields filepath, search and replace, or a string that starts
\* with "[Format Error]"; it never raises.
C7_ExtractReturnsBlocksOrFormatError ==
    ret.fn = "extract_diff_json" =>
        \/ /\ ret.result.kind = "list"
           /\ \A i \in 1..Len(ret.result.blocks) :
                  /\ ret.result.blocks[i].t = "obj"
                  /\ \A k \in 1..Len(RequiredKeys) :
                         InSeq(RequiredKeys[k], ret.result.blocks[i].keys)
        \/ /\ ret.result.kind = "str"
           /\ StartsWith(ret.result.s, FormatError)

\* C8: while promptN.diff exists main is never in the repair loop of prompt
\* N (no LLM call, no patch, no build/test); the prompt is recorded as
\* pass_existing; an existing file is never changed; every prompt recorded
\* as passed has its file, so a later run skips it, and a file exists only
\* for a prompt recorded as passed, so a prompt that only failed is tried
\* again.
C8_StateInv ==
    /\ InLoop => ~output_files[prompt_num].exists
    /\ (pc = "next" /\ prompt_num # 0 /\ hist.improves = 0) =>
           /\ LastRow = [prompt |-> prompt_num, status |-> "pass_existing",
                         failure_type |-> ""]
           /\ output_files[prompt_num].exists
           /\ output_files[prompt_num].mtime < run
    /\ \A r \in Rows : r.status \in {"pass", "pass_existing"} =>
           output_files[r.prompt].exists
    /\ \A p \in Prompts : output_files[p].exists =>
           \E r \in Rows : r.prompt = p /\ r.status = "pass"
C8_ExistingSkipped ==
    /\ []C8_StateInv
    /\ [][\A p \in Prompts : output_files[p].exists =>
              output_files'[p] = output_files[p]]_vars

\* C8 witness: in the second run, one prompt skipped for its existing file.
C8_Witness ==
    /\ run = 2 /\ pc = "next" /\ prompt_num # 0 /\ hist.improves = 0
    /\ LastRow.status = "pass_existing"

\* C8 witness (the other half): in a second run, a prompt that failed in
\* the first is in the repair loop again.
C8_WitnessRetry ==
    /\ run = 2 /\ pc = "apply"
    /\ \E r \in Rows : r.prompt = prompt_num /\ r.status = "fail"

\* C9: every prompt file main processes gets exactly one row in
\* progress.csv, with status pass_existing, pass or fail; the header is
\* written once, when the file does not exist, and the lines of earlier
\* runs stay.
C9_OneRowPerPrompt ==
    /\ pc \in {"next", "done", "crashed"} =>
           Len(stats_file.lines) - hist.lines0 = total_try
    /\ \A i \in 1..Len(stats_file.lines) :
           IF i = 1 THEN stats_file.lines[i] = HeaderLine
           ELSE stats_file.lines[i].status \in {"pass_existing", "pass", "fail"}

ProviderOf == [gpt |-> "openai", llama |-> "transformers", deepseek |-> "deepseek",
               gemini |-> "genai", claude |-> "anthropic"]

\* C11: call_llm dispatches on the model name to exactly one provider
\* function: for "gpt", "llama", "deepseek", "gemini" and "claude" exactly one
\* request is made, to that model's provider and with the caller's prompt;
\* for any other name it raises ValueError and no provider is contacted.
C11_DispatchOneProvider ==
    ret.fn = "call_llm" =>
        IF args.model_name \in DOMAIN ProviderOf
        THEN /\ Len(ret.result.calls) = 1
             /\ ret.result.calls[1].provider = ProviderOf[args.model_name]
             /\ ret.result.calls[1].messages[2].content = args.prompt
             /\ ret.result.exc # "ValueError"
        ELSE /\ ret.result.kind = "raise"
             /\ ret.result.exc = "ValueError"
             /\ ret.result.calls = <<>>

\* An unsupported name was passed and the call has returned with ValueError.
C11_Witness ==
    /\ ret.fn = "call_llm"
    /\ args.model_name = "GPT"
    /\ ret.result.exc = "ValueError"

\* The position of the brace that closes the brace opened at position open
\* (depth counts the braces open before position i), 0 when there is none.
RECURSIVE ClosingBrace(_, _, _)
ClosingBrace(s, i, depth) ==
    IF i > Len(s) THEN 0
    ELSE IF s[i] = "{" THEN ClosingBrace(s, i + 1, depth + 1)
    ELSE IF s[i] = "}" THEN (IF depth = 1 THEN i ELSE ClosingBrace(s, i + 1, depth - 1))
    ELSE ClosingBrace(s, i + 1, depth)

\* The snippet of the named function: from the first 'name(' to the brace
\* balancing the first opening brace after it; <<>> when there is no such brace.
FunctionSnippet(s, name) ==
    LET start == Find(s, name \o <<"(">>)
        opens == {i \in start..Len(s) : s[i] = "{"}
    IN IF start = 0 \/ opens = {} THEN <<>>
       ELSE LET open == CHOOSE i \in opens : \A j \in opens : i <= j
                close == ClosingBrace(s, open + 1, 1)
            IN IF close = 0 THEN <<>> ELSE SubSeq(s, start, close)

\* C12: extract_function returns the snippet of the named function, the text
\* from the first occurrence of 'name(' to the closing brace that balances the
\* first opening brace after it, and raises ValueError when 'name(' does not
\* occur in the file.
C12_ExtractFunctionBody ==
    ret.fn = "extract_function" =>
        IF Find(args.source_code, args.function_name \o <<"(">>) = 0
        THEN ret.result = RRaise("ValueError")
        ELSE FunctionSnippet(args.source_code, args.function_name) # <<>>
                => ret.result = RStr(FunctionSnippet(args.source_code, args.function_name))

\* The code a path of the task file stands for: the whole file for a path
\* ending in .java, the snippet of the named function for path.function.
NamedCode(fs, path) ==
    IF EndsWith(path, <<".", "java">>) THEN fs[path]
    ELSE FunctionSnippet(fs[RSplitDot(path)[1] \o <<".", "java">>], RSplitDot(path)[2])
NamedFile(path) ==
    IF EndsWith(path, <<".", "java">>) THEN path ELSE RSplitDot(path)[1] \o <<".", "java">>
TaskPaths(field) ==
    {PathJoin(<<".", ".", "/">> \o RepoName, SplitWs(field)[i]) : i \in 1..Len(SplitWs(field))}
BenchmarkPath == PathJoin(<<".", ".", "/">> \o RepoName, args.json_data.jmh_case)
BenchmarkCode ==
    IF Contains(<<".">>, args.json_data.jmh_case)
    THEN NamedCode(FilesAtCommit(args.bench), BenchmarkPath)
    ELSE FilesAtCommit(args.bench)[BenchmarkPath \o <<".", "java">>]
\* The task names files of the checkout and functions that occur in them.
TaskWellFormed ==
    /\ args.repo_exists
    /\ \A p \in TaskPaths(args.json_data.unittest) : p \in DOMAIN FilesAtCommit(args.bench)
    /\ \A p \in TaskPaths(args.json_data.source_code) :
          /\ NamedFile(p) \in DOMAIN FilesAtParent(args.bench)
          /\ NamedCode(FilesAtParent(args.bench), p) # <<>>
    /\ BenchmarkCode # <<>>

\* C13: generate_prompts returns exactly four prompts, in the order no-hint,
\* hint, benchmark-aware, both: prompt1 holds the source code and the unit
\* tests only, prompt2 adds the description and no benchmark code, prompt3
\* adds the target benchmark code and no description, prompt4 adds both; all
\* four contain the same source and unit-test text.
C13_FourPromptVariants ==
    (ret.fn = "generate_prompts" /\ TaskWellFormed) =>
        /\ ret.result.kind = "list"
        /\ Len(ret.result.blocks) = 4
        /\ LET p == ret.result.blocks
               issue == IssueHeader \o args.json_data.description
               benchmark == BenchmarkHeader \o BenchmarkCode
           IN /\ \A i \in 1..4 : Contains(p[1], p[i])
              /\ \A q \in TaskPaths(args.json_data.source_code) :
                    Contains(<<"\n">> \o NamedCode(FilesAtParent(args.bench), q) \o <<"\n">>, p[1])
              /\ \A q \in TaskPaths(args.json_data.unittest) :
                    Contains(<<"\n">> \o FilesAtCommit(args.bench)[q] \o <<"\n">>, p[1])
              /\ ~Contains(IssueHeader, p[1]) /\ ~Contains(BenchmarkHeader, p[1])
              /\ Contains(issue, p[2]) /\ ~Contains(BenchmarkHeader, p[2])
              /\ Contains(benchmark \o <<"\n">>, p[3]) /\ ~Contains(IssueHeader, p[3])
              /\ Contains(issue, p[4]) /\ Contains(benchmark \o <<"\n">>, p[4])

\* fillna('') on one value.
Filled(p) == IF p = NaN THEN "" ELSE p
DeveloperRows(h) ==
    {i \in 1..Len(args.data) : args.data[i].hash_value = h /\ args.data[i].model = "developer"}

\* C14: for every task that has developer rows exactly one representative
\* (benchmark_name, params) pair is selected, one on which the developer's
\* normalized_performance is the largest over all benchmark cases of the
\* task, and every row output for the task, developer's or LLM's, is a score
\* on that benchmark and params; a task without a developer row contributes
\* no output row.
C14_RepresentativeBenchmark ==
    ret.fn = "calculate_representative_benchmark_scores" =>
        /\ \A h \in TaskHashes :
              IF DeveloperRows(h) = {}
              THEN /\ \A i \in 1..Len(ret.result.csv) : ret.result.csv[i].hash_value # h
                   /\ \A r \in ret.result.representatives : r[1] # h
              ELSE /\ Cardinality({r \in ret.result.representatives : r[1] = h}) = 1
                   /\ \E r \in ret.result.representatives :
                         /\ r[1] = h
                         /\ \E i \in DeveloperRows(h) :
                               /\ args.data[i].benchmark_name = r[2]
                               /\ Filled(args.data[i].params) = Filled(r[3])
                               /\ \A j \in DeveloperRows(h) :
                                     args.data[j].normalized_performance
                                         <= args.data[i].normalized_performance
                         /\ \A k \in 1..Len(ret.result.kept) :
                               ret.result.kept[k].hash_value = h =>
                                   /\ ret.result.kept[k].benchmark_name = r[2]
                                   /\ Filled(ret.result.kept[k].params) = Filled(r[3])
        /\ Len(ret.result.csv) = Len(ret.result.kept)
        /\ \A i \in 1..Len(ret.result.csv) : \E k \in 1..Len(ret.result.kept) :
              /\ ret.result.kept[k].hash_value = ret.result.csv[i].hash_value
              /\ ret.result.kept[k].model = ret.result.csv[i].model
              /\ ret.result.kept[k].trial = ret.result.csv[i].trial
              /\ ret.result.kept[k].normalized_performance = ret.result.csv[i].final_score

\* A task with developer rows on two benchmark cases, the better one not the
\* first, and an LLM row: the developer's better case and the LLM's row on it
\* are output, the other developer row is not.
C14_Witness ==
    /\ ret.fn = "calculate_representative_benchmark_scores"
    /\ Len(args.data) = 3
    /\ args.data[1].model = "developer" /\ args.data[2].model = "developer"
    /\ args.data[3].model = "gpt"
    /\ \A i \in 1..3 : args.data[i].hash_value = 1
    /\ args.data[1].benchmark_name = "b1" /\ args.data[1].params = "p"
    /\ args.data[2].benchmark_name = "b2" /\ args.data[3].benchmark_name = "b2"
    /\ args.data[1].normalized_performance < args.data[2].normalized_performance
    /\ Len(ret.result.csv) = 2

\* The group under test, its entries by version, and the lines written for it.
TestedGroup == args.results[1]
EntriesOf(name) == SelectSeq(TestedGroup.entries, LAMBDA e : e.model = name)
LinesOfTestedGroup ==
    SelectSeq(ret.result.rows, LAMBDA r : r.hash_value = TestedGroup.key[1])
UniformMode ==
    \A i \in 1..Len(TestedGroup.entries) : TestedGroup.entries[i].mode = TestedGroup.entries[1].mode
\* The developer mean is at least 5% better than the original mean: at most
\* 95% of it for avgt and sample, at least 105% of it for thrpt.
DeveloperImproves5Percent ==
    LET so == SumScores(EntriesOf("original"))
        no == Len(EntriesOf("original"))
        sd == SumScores(EntriesOf("developer"))
        nd == Len(EntriesOf("developer"))
        mode == TestedGroup.entries[1].mode
    IN /\ ~HasNoneScore(EntriesOf("original")) /\ ~HasNoneScore(EntriesOf("developer"))
       /\ \/ mode \in {"avgt", "sample"} /\ 20 * sd * no <= 19 * so * nd
          \/ mode = "thrpt" /\ 20 * sd * no >= 21 * so * nd

\* C15: print_results (both scripts) writes a (hash, benchmark, params) group
\* only if it has an original and a developer entry and the developer mean
\* improves on the original mean by at least 5% in the direction of the
\* benchmark mode; a group that fails this is skipped as a whole, none of its
\* entries is written.
C15_GroupWrittenOnlyIfImproved ==
    ret.fn \in {"print_results", "extract_score.print_results"} =>
        /\ Len(LinesOfTestedGroup) \in {0, Len(TestedGroup.entries)}
        /\ LinesOfTestedGroup # <<>> =>
              /\ EntriesOf("original") # <<>>
              /\ EntriesOf("developer") # <<>>
              /\ UniformMode => DeveloperImproves5Percent

\* A throughput group at exactly 5% improvement is written with its LLM entry,
\* by extract_score.print_results.
C15_Witness ==
    /\ ret.fn = "extract_score.print_results"
    /\ Len(TestedGroup.entries) = 3
    /\ TestedGroup.entries[1] = Entry("gpt", Num(19), "thrpt")
    /\ TestedGroup.entries[2] = Entry("original", Num(20), "thrpt")
    /\ TestedGroup.entries[3] = Entry("developer", Num(21), "thrpt")
    /\ Len(LinesOfTestedGroup) = 3

\* A group below 5% (developer 20 against original 20 and 21, lower is
\* better) is skipped by normalize_score.print_results while the group after
\* it is written.
C15_WitnessSkipped ==
    /\ ret.fn = "print_results"
    /\ Len(TestedGroup.entries) = 3
    /\ TestedGroup.entries[1] = Entry("original", Num(20), "avgt")
    /\ TestedGroup.entries[2] = Entry("original", Num(21), "avgt")
    /\ TestedGroup.entries[3] = Entry("developer", Num(20), "avgt")
    /\ LinesOfTestedGroup = <<>>
    /\ Len(ret.result.rows) = 3

\* C16: in normalize_score.print_results the normalized_performance of an
\* entry is org_mean/score for avgt and sample and score/org_mean for thrpt,
\* org_mean being the mean of the original entries of its group; so a value
\* above 1 means faster than the original in every mode, a score equal to
\* org_mean gives exactly 1, and a missing or non-positive score gives an
\* empty value.
C16_NormalizedPerformance ==
    ret.fn = "print_results" =>
        \A i \in 1..Len(LinesOfTestedGroup) :
            LET line == LinesOfTestedGroup[i]
                cell == line.normalized_performance
                so == SumScores(EntriesOf("original"))
                no == Len(EntriesOf("original"))
            IN /\ line.mean = TestedGroup.entries[i].score
               /\ IF line.mean = None \/ line.mean[1] <= 0
                  THEN cell.empty
                  ELSE /\ ~cell.empty
                       /\ cell.den > 0
                       /\ line.mode \in {"avgt", "sample"} =>
                             /\ cell.num * no * line.mean[1] = cell.den * so
                             /\ cell.num > cell.den <=> line.mean[1] * no < so
                       /\ line.mode = "thrpt" =>
                             /\ cell.num * so = cell.den * line.mean[1] * no
                             /\ cell.num > cell.den <=> line.mean[1] * no > so
                       /\ line.mean[1] * no = so => cell.num = cell.den

\* A written average-time group with an LLM entry faster than the original
\* (value above 1), one entry without a score and the developer entry.
C16_Witness ==
    /\ ret.fn = "print_results"
    /\ Len(TestedGroup.entries) = 3
    /\ TestedGroup.entries[1] = Entry("original", Num(20), "avgt")
    /\ TestedGroup.entries[2] = Entry("developer", Num(19), "avgt")
    /\ TestedGroup.entries[3] = Entry("gpt", None, "avgt")
    /\ Len(LinesOfTestedGroup) = 3
    /\ LinesOfTestedGroup[2].normalized_performance = Frac(20, 19)
    /\ LinesOfTestedGroup[3].normalized_performance.empty

\* The LLM rows of the input in the group of key, and those of the output.
InputGroup(key) ==
    SelectSeq(args.df, LAMBDA r : r.model # "developer" /\ r.hash_value = key[1]
                                  /\ r.model = key[2] /\ r.prompt = key[3])
OutputGroup(key) ==
    SelectSeq(ret.result, LAMBDA r : r.hash_value = key[1] /\ r.model = key[2]
                                     /\ r.prompt = (IF key[3] = NaN THEN "N/A" ELSE key[3]))
InputKeys ==
    {<<args.df[i].hash_value, args.df[i].model, args.df[i].prompt>> :
        i \in {j \in 1..Len(args.df) : args.df[j].model # "developer"}}
\* The number of rows of a group scoring below, and at most, a score.
Below(group, s) == Cardinality({i \in 1..Len(group) : group[i].final_score < s})
AtMost(group, s) == Cardinality({i \in 1..Len(group) : group[i].final_score <= s})

\* C17: select_median_scores keeps exactly one LLM row for every (hash_value,
\* model, prompt) group of its input, the only trial of a group of 1, the
\* lower-scoring trial of a group of 2, the median-scoring trial of a group of
\* 3; no group of the input is missing from the output, and every developer
\* row is kept.
C17_OneTrialPerGroup ==
    ret.fn = "select_median_scores" =>
        /\ \A key \in InputKeys :
              LET group == InputGroup(key)
                  out == OutputGroup(key)
              IN /\ Len(out) = 1
                 /\ \E i \in 1..Len(group) :
                       /\ group[i].trial = out[1].trial
                       /\ group[i].final_score = out[1].final_score
                 /\ Len(group) = 2 => Below(group, out[1].final_score) = 0
                 /\ Len(group) = 3 => /\ Below(group, out[1].final_score) <= 1
                                      /\ AtMost(group, out[1].final_score) >= 2
        /\ \A i \in 1..Len(args.df) :
              args.df[i].model = "developer" =>
                  \E j \in 1..Len(ret.result) :
                      /\ ret.result[j].model = "developer"
                      /\ ret.result[j].hash_value = args.df[i].hash_value
                      /\ ret.result[j].final_score = args.df[i].final_score
        /\ Cardinality({j \in 1..Len(ret.result) : ret.result[j].model = "developer"})
              = Cardinality({i \in 1..Len(args.df) : args.df[i].model = "developer"})

\* The numbers of pairs in which x's value is the larger, the smaller, the same.
PairsGreater == CountPairs(args.x, args.y, ">")
PairsLess == CountPairs(args.x, args.y, "<")
PairsEqual == CountPairs(args.x, args.y, "=")
SameFraction(a, b) == ~a.empty /\ ~b.empty /\ a.num * b.den = b.num * a.den

\* C18: for non-empty x and y, vargha_delaney_a12(x, y) is (pairs with x_i >
\* y_j plus half the pairs with x_i = y_j) / (|x| * |y|); it lies in [0, 1],
\* is above 0.5 exactly when more pairs have x larger than y larger, and
\* A12(x, y) + A12(y, x) = 1, so that the mirrored cell 1 - A12(x, y) of the
\* effect-size matrix is A12(y, x).
C18_A12 ==
    (ret.fn = "vargha_delaney_a12" /\ args.x # <<>> /\ args.y # <<>>) =>
        LET a == ret.result
            b == vargha_delaney_a12(args.y, args.x)
        IN /\ ~a.empty /\ a.den > 0
           /\ a.num * 2 * Len(args.x) * Len(args.y) = (2 * PairsGreater + PairsEqual) * a.den
           /\ 0 <= a.num /\ a.num <= a.den
           /\ (2 * a.num > a.den) <=> (PairsGreater > PairsLess)
           /\ a.num * b.den + b.num * a.den = a.den * b.den
           /\ SameFraction(ret.mirrored, b)

\* Samples with a tie, a pair where x is larger and a pair where y is larger.
C18_Witness ==
    /\ ret.fn = "vargha_delaney_a12"
    /\ args.x = <<1, 3>> /\ args.y = <<1, 2>>
    /\ ret.result = Frac(5, 8)


\* The calls of apply_diff a batch made, as a set.
BatchCalls == {ret.calls[i] : i \in 1..Len(ret.calls)}

\* C19: batch_generate_diff never overwrites an existing *.diff file: a log
\* whose .diff exists is skipped, with no call of apply_diff for it (and the
\* checkout left as it was when every log is skipped), and a .diff the batch
\* wrote holds what apply_diff returned for its log, a result that is not
\* empty and does not start with "[Format Error]".
C19_NeverOverwritesDiff ==
    ret.fn = "batch_generate_diff" =>
        /\ \A p \in DOMAIN args.fs :
              /\ p \in DOMAIN ret.files
              /\ ret.files[p] = args.fs[p]
        /\ \A c \in BatchCalls : c.diff \notin DOMAIN args.fs
        /\ ret.calls = <<>> => ret.tree = args.tree
        /\ \A p \in DOMAIN ret.files \ DOMAIN args.fs :
              \E c \in BatchCalls :
                  /\ c.diff = p
                  /\ c.result.kind = "str"
                  /\ c.result.s # <<>>
                  /\ ~StartsWith(c.result.s, FormatError)
                  /\ ret.files[p] = c.result.s

\* A batch that skipped prompt1's log because its .diff was there, left that
\* .diff as it was, and wrote prompt2's .diff from what apply_diff returned.
C19_Witness ==
    /\ ret.fn = "batch_generate_diff"
    /\ CommitPath(BatchCommitId, Prompt1Diff) \in DOMAIN args.fs
    /\ CommitPath(BatchCommitId, Prompt1Log) \in DOMAIN args.fs
    /\ CommitPath(BatchCommitId, Prompt2Diff) \notin DOMAIN args.fs
    /\ CommitPath(BatchCommitId, Prompt2Diff) \in DOMAIN ret.files
    /\ Len(ret.calls) = 1
    /\ ret.files[CommitPath(BatchCommitId, Prompt1Diff)] = OldDiff


\* The build files run_unit_test edits.
BuildFiles == {PomFile, GradleDeps, BuildGradle}

\* `git diff -w` of the parent commit's tree with the blocks of one LLM
\* output applied and nothing else.
CleanPatch(log) ==
    LET blocks == extract_diff_json(log) IN
    git_diff_w(ApplyBlocks(blocks.blocks, ParentTree, <<>>).tree)

\* C20: every call of apply_diff starts from the parent commit's tree, so a
\* patch it returns is the diff of the current LLM output's edits alone: it
\* names no build file, holds nothing an earlier attempt or run_unit_test
\* left in the checkout, and the build files are the parent's after the call.
C20_PatchHoldsOnlyCurrentEdits ==
    (ret.fn = "attempts" /\ ret.step = "applied") =>
        /\ \A f \in BuildFiles : ret.tree[f] = ParentTree[f]
        /\ (ret.result.kind = "str" /\ ~StartsWith(ret.result.s, FormatError)) =>
              /\ ret.result.s = CleanPatch(ret.log)
              /\ \A f \in BuildFiles : ~InSeq(f, ret.result.s)
              /\ ~InSeq("e", ret.result.s)

\* A call that started from a checkout holding both an earlier patch and
\* netty's workaround edits, and returned a patch.
C20_Witness ==
    /\ ret.fn = "attempts" /\ ret.step = "applied"
    /\ args.repo_name = "netty"
    /\ ret.before[PomFile] # ParentTree[PomFile]
    /\ ret.before[TrackedFile] # ParentTree[TrackedFile]
    /\ IsPatch(ret.result)
    /\ IsPatch(ret.earlier)
    /\ ret.result # ret.earlier

\* A call that started from what a partially applied output left, and
\* returned a patch.
C20_WitnessPartial ==
    /\ ret.fn = "attempts" /\ ret.step = "applied"
    /\ ret.earlier.kind = "str" /\ StartsWith(ret.earlier.s, FormatError)
    /\ ret.before[TrackedFile] = <<"a", "a", "\n", " ", "a", "a">>
    /\ IsPatch(ret.result)


\* The LLM output the last apply_diff of the prompt was given: the one
\* improve_code_with_llm holds after its first attempt, else the one it
\* returned to main.
RejectedLog == IF imp.iteration > 0 THEN imp.llm_log ELSE llm_log

\* C21: a call_llm that follows, for the same prompt file, an apply_diff
\* whose result carried "[Format Error]" is given a prompt that holds that
\* error message and the LLM output that was rejected: the second attempt of
\* improve_code_with_llm, and the first attempt of main's next iteration
\* after "Failed".
C21_FormatErrorFedBack ==
    [][(/\ pc = "improve" /\ pc' = "apply"
        /\ hist.applied.kind = "str"
        /\ Contains(FormatError, hist.applied.s)) =>
           /\ Contains(hist.applied.s, hist'.last_call)
           /\ Contains(RejectedLog.text, hist'.last_call)]_vars


\* C22: run_unit_test is called only directly after an
\* improve_code_with_llm that returned "Success" in the same iteration of
\* main, at most once in an iteration, and the last apply_diff then returned
\* the patch at hand, without "[Format Error]"; after "Failed" the iteration
\* ends with no build/test run.
C22_TestOnlyAfterSuccess ==
    /\ [][hist'.tests > hist.tests =>
             /\ pc = "returned" /\ status = "Success"
             /\ hist.applied.kind = "str"
             /\ ~Contains(FormatError, hist.applied.s)
             /\ hist.applied = diff_patch
             /\ hist.improves = iteration
             /\ hist.tests < iteration
             /\ hist'.tests = hist.tests + 1
             /\ hist'.tested.iteration = iteration]_vars
    /\ [][(pc = "returned" /\ status = "Failed") =>
             /\ hist'.tests = hist.tests
             /\ pc' = "loop"]_vars

\* C22 witness: a build/test run in iteration 2, after an iteration 1 that
\* ended "Failed" and had none.
C22_Witness ==
    /\ hist.tested.ran /\ hist.tested.iteration = 2
    /\ hist.tests = 1 /\ format_fail_count = 1


FailSum == format_fail_count + build_fail_count + test_fail_count
\* The failed-patch records among the files of llm_output_failed: one for
\* each prefix promptN.iterK.<failure type>.
FailedRecords(dir) ==
    {[prompt |-> f.prompt, iteration |-> f.iteration,
      failure_type |-> f.failure_type] : f \in dir}
\* The unit test of the iteration at hand was run and passed.
TestPassedNow ==
    /\ hist.tested.ran /\ hist.tested.iteration = iteration
    /\ hist.tested.build_ok /\ hist.tested.test_ok

\* C23: an iteration of main's repair loop that does not end in a passed
\* unit test adds one to exactly one of format_fail_count, build_fail_count
\* and test_fail_count and saves exactly one failed-patch record, and one
\* that does adds nothing; so a prompt recorded as fail has 3 failures and a
\* prompt that passed at iteration k has k - 1.
C23_OneFailurePerIteration ==
    /\ [][(pc = "returned" /\ pc' \in {"loop", "after"}) =>
             IF TestPassedNow'
             THEN /\ FailSum' = FailSum
                  /\ failed_files' = failed_files
             ELSE /\ FailSum' = FailSum + 1
                  /\ format_fail_count' >= format_fail_count
                  /\ build_fail_count' >= build_fail_count
                  /\ test_fail_count' >= test_fail_count
                  /\ Cardinality(FailedRecords(failed_files')
                                 \ FailedRecords(failed_files)) = 1]_vars
    /\ [](pc = "next" /\ hist.improves > 0 =>
             IF LastRow.status = "fail"
             THEN Cardinality(FailedRecords(failed_files)) = 3
             ELSE Cardinality(FailedRecords(failed_files)) = iteration - 1)


\* What the last build/test run of the prompt at hand failed in, by the
\* exit codes of its commands.
TestedFailure == IF hist.tested.build_ok THEN "test_failed" ELSE "build_failed"

\* C24: a progress.csv row with status fail has a failure_type among
\* format_failed, build_failed and test_failed, and it names what the third
\* iteration of the prompt failed in: format_failed when it had no
\* build/test run, else the command of that run that failed; a row with
\* status pass or pass_existing has an empty failure_type.
C24_FailureTypeOfLastIteration ==
    /\ \A i \in 2..Len(stats_file.lines) :
          LET r == stats_file.lines[i] IN
          IF r.status = "fail"
          THEN r.failure_type \in {"format_failed", "build_failed", "test_failed"}
          ELSE r.failure_type = ""
    /\ (pc = "next" /\ hist.improves > 0 /\ LastRow.status = "fail") =>
          /\ iteration = 3
          /\ LastRow.failure_type =
                IF hist.tested.ran /\ hist.tested.iteration = 3
                THEN TestedFailure ELSE "format_failed"


\* The text of the unit-test files as the prompts show it: what prompt1 holds
\* after the header of its unit tests.
RECURSIVE AfterFirst(_, _)
AfterFirst(s, marker) ==
    IF Len(s) < Len(marker) THEN <<>>
    ELSE IF SubSeq(s, 1, Len(marker)) = marker
         THEN SubSeq(s, Len(marker) + 1, Len(s))
         ELSE AfterFirst(Tail(s), marker)
PromptTests == AfterFirst(ret.prompts.blocks[1], TestHeader)
\* The section of the unit test that was run, made from the text it had
\* when it was run.
RunTest ==
    LET names == SplitWs(args.json_data.unittest) IN
    <<">>> file_path: ">> \o PathJoin(PathJoin(<<".", ".", "/">>, RepoName), names[1])
    \o <<"\n">> \o ret.tests_run \o <<"\n">>

\* C25: the unit test run_unit_test runs on the patched checkout is the
\* version whose text the prompts hold: generate_prompts read it from the
\* checkout state that apply_diff leaves for run_unit_test.
C25_PromptTestsAreTestsRun ==
    (ret.fn = "task" /\ ret.step = "tested") => StartsWith(PromptTests, RunTest)


\* The part of a prompt between two of its headers.
RECURSIVE UpTo(_, _)
UpTo(s, marker) ==
    IF Len(s) < Len(marker) THEN s
    ELSE IF SubSeq(s, 1, Len(marker)) = marker THEN <<>>
    ELSE <<Head(s)>> \o UpTo(Tail(s), marker)
SourcePart(prompt) == UpTo(AfterFirst(prompt, SourceHeader), TestHeader)
TestPart(prompt) == UpTo(AfterFirst(prompt, TestHeader), BenchmarkHeader)
BenchmarkPart(prompt) == AfterFirst(prompt, BenchmarkHeader)
CommitSource == <<"s", "2">>
ParentSource == <<"f", "(", "{", "s", "1", "}">>
ParentTest == <<"t", "0">>
ParentBenchmark == <<"o">>

\* C26: the prompts generate_prompts returns hold the unit tests and the
\* benchmark as they are at commit_hash and the source files as they are at
\* its parent: no prompt holds the developer's version of the source, a
\* source file asked for as a whole is there in the parent's text, the test
\* and benchmark parts hold nothing of the parent's versions, and the
\* checkout is left at the parent.
C26_SourceFromParent ==
    (ret.fn = "generate_prompts" /\ ret.result.kind = "list") =>
        /\ \A i \in 1..4 :
              LET prompt == ret.result.blocks[i] IN
              /\ ~Contains(CommitSource, prompt)
              /\ ~Contains(ParentTest, TestPart(prompt))
              /\ Contains(<<"t", "\n">>, TestPart(prompt))
              /\ Contains(<<"A", ".", "java", "\n">>, SourcePart(prompt)) =>
                     Contains(ParentSource, SourcePart(prompt))
        /\ \A i \in {3, 4} :
              /\ ~Contains(ParentBenchmark, BenchmarkPart(ret.result.blocks[i]))
              /\ args.json_data.jmh_case = <<"Bench">> =>
                     BenchmarkPart(ret.result.blocks[i]) = args.bench \o <<"\n">>
        /\ ret.checkout[RepoFile("A")] = ParentSource

\* C26 witness: prompts for a task with a whole source file and a whole
\* benchmark class.
C26_Witness ==
    /\ ret.fn = "generate_prompts" /\ ret.result.kind = "list"
    /\ args.json_data.source_code = <<"A", ".", "java">>
    /\ args.json_data.jmh_case = <<"Bench">>
    /\ Contains(ParentSource, SourcePart(ret.result.blocks[4]))
    /\ BenchmarkPart(ret.result.blocks[4]) # <<>>


\* The tracked files of the working tree are the parent commit's but for
\* whitespace.
TreeUnchanged ==
    \A i \in 1..Len(TrackedFiles) :
        LinesNoWs(tree[TrackedFiles[i]]) = LinesNoWs(ParentTree[TrackedFiles[i]])
NoCodeChanges == RStr(FormatError \o <<"No code changes detected.">>)

\* C27: when improve_code_with_llm returns "Success" its patch is a
\* non-empty text without "[Format Error]" and the tracked files differ from
\* the parent commit's in more than whitespace; an apply_diff that went
\* through all blocks and left the tracked files unchanged reports
\* "[Format Error] No code changes detected." and is never a "Success": it
\* leads to the repair prompt or, attempts used up, to "Failed"; and no
\* promptN.diff is saved empty.
C27_SuccessPatchNotEmpty ==
    /\ [][(pc = "apply" /\ pc' = "returned") =>
             /\ status' = "Success"
             /\ diff_patch'.kind = "str"
             /\ Strip(diff_patch'.s) # <<>>
             /\ ~Contains(FormatError, diff_patch'.s)
             /\ diff_patch'.s = git_diff_w(tree')
             /\ ~TreeUnchanged']_vars
    /\ [][(pc = "apply" /\ TreeUnchanged' /\ hist'.applied.kind = "str") =>
             /\ pc' = "improve"
             /\ Contains(FormatError, hist'.applied.s)
             /\ imp'.diff_patch = hist'.applied
             /\ imp'.iteration = imp.iteration + 1
             /\ Contains(hist'.applied.s, imp'.prompt_feedback)
             /\ imp.llm_log = LogSame => hist'.applied = NoCodeChanges]_vars
    /\ [][(pc = "improve" /\ pc' = "returned") => status' = "Failed"]_vars
    /\ [][\A n \in Prompts :
             output_files'[n] # output_files[n] =>
                 /\ Strip(output_files'[n].diff) # <<>>
                 /\ ~Contains(FormatError, output_files'[n].diff)]_vars

\* C27 witness: an output that changed whitespace only was answered with
\* "No code changes detected" and the repair prompt is ready.
C27_Witness ==
    /\ pc = "improve"
    /\ imp.iteration = 1
    /\ imp.llm_log = LogSame
    /\ imp.diff_patch = NoCodeChanges
    /\ TreeUnchanged /\ tree # ParentTree

\* C27 witness: after a repair a real patch was returned and saved.
C27_WitnessSaved ==
    /\ pc = "next" /\ prompt_num \in Prompts
    /\ output_files[prompt_num].exists /\ output_files[prompt_num].mtime = run
    /\ output_files[prompt_num].diff = diff_patch.s
    /\ Strip(diff_patch.s) # <<>>
    /\ ~TreeUnchanged
    /\ hist.calls > hist.improves


\* C28: for every group of trial scores of one (task, model, prompt), of any
\* size, select_median_scores, the selection loop of
\* generate_model_performance_table.py and summarize_performance_by_hash
\* select the same score.
C28_SelectionsAgree ==
    (ret.fn = "selection" /\ ret.done = {"median", "table", "summary"}) =>
        /\ ret.median = ret.table
        /\ ret.table = ret.summary
        /\ Len(ret.median) = 1


\* The six tiers from the lowest to the highest.
TierRank(label) ==
    CASE label = "Major Regression (<0.9x)" -> 1
      [] label = "Minor Regression (0.9x-0.95x)" -> 2
      [] label = "No Substantial Change (0.95x-1.05x)" -> 3
      [] label = "Minor Improvement (1.05x-1.1x)" -> 4
      [] label = "Major Improvement (1.1x-1.5x)" -> 5
      [] label = "Massive Improvement (>1.5x)" -> 6
      [] OTHER -> 0

\* C29: categorize_performance gives every score one of the six tiers, the
\* one its label names: below 0.90 Major Regression, [0.90, 0.95) Minor
\* Regression, [0.95, 1.05] No Substantial Change, (1.05, 1.10] Minor
\* Improvement, (1.10, 1.50] Major Improvement, above 1.50 Massive
\* Improvement; a higher score is never in a lower tier; the two copies of
\* the function agree.
C29_TierBoundaries ==
    (ret.fn = "categorize_performance" /\ ret.done = {"final_score", "GMean"}) =>
        LET s == args.score
            rank == TierRank(ret.Tier)
        IN /\ rank \in 1..6
           /\ ret.GMeanTier = ret.Tier
           /\ (rank = 1) <=> (s < 900)
           /\ (rank = 2) <=> (900 <= s /\ s < 950)
           /\ (rank = 3) <=> (950 <= s /\ s <= 1050)
           /\ (rank = 4) <=> (1050 < s /\ s <= 1100)
           /\ (rank = 5) <=> (1100 < s /\ s <= 1500)
           /\ (rank = 6) <=> (s > 1500)
           /\ \A higher \in TierScores :
                 higher >= s => TierRank(categorize_performance(higher)) >= rank

\* C29 witness: the score 1.05 itself was put in No Substantial Change by
\* both copies.
C29_Witness ==
    /\ ret.fn = "categorize_performance" /\ ret.done = {"final_score", "GMean"}
    /\ args.score = 1050
    /\ ret.Tier = "No Substantial Change (0.95x-1.05x)"
    /\ ret.GMeanTier = ret.Tier

====
